---- MODULE Spec2Model ----
(***************************************************************************)
(* Model of the Telegram VPN-subscription backend: the user ledger of      *)
(* src/src/services/telegramUserService.ts and the webhook dispatcher of   *)
(* src/src/controllers/features/telegram/telegramWebhookController.ts.     *)
(*                                                                         *)
(* Every store call (select / insert / update on the users table) is one   *)
(* atomic step; a request handler is a sequence of such steps, and the     *)
(* handlers of concurrent webhook requests interleave between them.        *)
(* Money is counted in cents; a value handed to roundUsd is in 1/100 cent. *)
(* A JS Date truncated to UTC midnight is a day number (day 0 is           *)
(* 2026-01-01); a stored date string "YYYY-MM-DD" is the tuple <<y,m,d>>.  *)
(***************************************************************************)
EXTENDS Integers, Sequences, FiniteSets, TLC

VARIABLES users, today, proc, started

vars == <<users, today, proc, started>>

\* ------------------------------------------------------------------ bounds

\* Requests (webhook updates and ledger calls) started in one behaviour.
MaxRequests == 2

\* Midnights that pass in one behaviour.
MaxTicks == 1

\* Largest gift index a gift:activate request carries.
MaxGiftIndex == 1

\* ------------------------------------------------------- program constants

TrialDays == 3

FirstPurchasePercent == 20

NextPurchasePercent == 10

\* --------------------------------------------------------------- universes

\* Concurrent request handlers (no in-process lock coordinates them).
Procs == {"h1", "h2"}

\* Telegram user ids (update.from.id).
Ids == {1, 2}

\* null for an absent username / nickname.
NoNick == "null"

\* message.from.username ?? null
Usernames == {NoNick, "nick"}

\* A missing row (select ... maybeSingle() with data === null).
NoUser == [absent |-> TRUE]

\* reffered_by: null
NoRef == [absent |-> TRUE]

\* subscription_untill: null
NoDate == <<>>

\* String(from.id): the decimal text of a numeric id.
IdString(n) == CASE n = 1 -> "1" [] n = 2 -> "2" [] n = 3 -> "3" [] OTHER -> "0"

\* Rows of subscription_prices as parseSubscriptionPriceRow accepts them
\* (months, stars positive integers; usdt >= 0), usdt in cents.
Catalog ==
  { [months |-> 1, stars |-> 100, usdt |-> 199],
    [months |-> 3, stars |-> 1, usdt |-> 0],
    [months |-> 12, stars |-> 1000, usdt |-> 1999] }

NoPrice == [absent |-> TRUE]

getSubscriptionPriceByMonths(months) ==
  IF \E row \in Catalog : row.months = months
    THEN CHOOSE row \in Catalog : row.months = months
    ELSE NoPrice

\* ------------------------------------------------------------------- dates

IsLeap(y) == (y % 4 = 0 /\ y % 100 # 0) \/ y % 400 = 0

DaysInYear(y) == IF IsLeap(y) THEN 366 ELSE 365

DaysInMonth(y, m) ==
  IF m = 2 THEN (IF IsLeap(y) THEN 29 ELSE 28)
  ELSE IF m \in {4, 6, 9, 11} THEN 30 ELSE 31

RECURSIVE DaysBeforeYear(_)
DaysBeforeYear(y) ==
  IF y <= 2026 THEN 0 ELSE DaysBeforeYear(y - 1) + DaysInYear(y - 1)

RECURSIVE DaysBeforeMonth(_, _)
DaysBeforeMonth(y, m) ==
  IF m <= 1 THEN 0 ELSE DaysBeforeMonth(y, m - 1) + DaysInMonth(y, m - 1)

\* Date.UTC(y, m - 1, d): a day of month beyond the month's end rolls over.
DateUTC(y, m, d) == DaysBeforeYear(y) + DaysBeforeMonth(y, m) + d - 1

RECURSIVE MonthFrom(_, _, _)
MonthFrom(y, m, n) ==
  IF n < DaysInMonth(y, m) THEN <<y, m, n + 1>>
  ELSE MonthFrom(y, m + 1, n - DaysInMonth(y, m))

RECURSIVE YearFrom(_, _)
YearFrom(y, n) ==
  IF n < DaysInYear(y) THEN MonthFrom(y, 1, n)
  ELSE YearFrom(y + 1, n - DaysInYear(y))

\* getUTCFullYear / getUTCMonth + 1 / getUTCDate of a day number.
formatDateOnly(date) == YearFrom(2026, date)

parseDateOnly(value) == DateUTC(value[1], value[2], value[3])

\* result.setUTCMonth(result.getUTCMonth() + months)
addMonths(baseDate, months) ==
  LET c == formatDateOnly(baseDate)
      m0 == (c[2] - 1) + months
  IN  DateUTC(c[1] + (m0 \div 12), (m0 % 12) + 1, c[3])

addDays(baseDate, days) == baseDate + days

\* The first day of a behaviour: 2026-01-30.
StartDay == DateUTC(2026, 1, 30)

\* ------------------------------------------------------------------- money

\* Math.round(value * 100) / 100, value given in 1/100 cent, result in cents.
roundUsd(value) == (value + 50) \div 100

\* cents as a value in 1/100 cent
Fine(cents) == cents * 100

\* ------------------------------------------------------------------- store

\* supabase.from("users").select(...).eq("tg_id", tgId).maybeSingle()
getTelegramUserByTgId(store, tgId) ==
  IF \E r \in store : r.tg_id = tgId
    THEN CHOOSE r \in store : r.tg_id = tgId
    ELSE NoUser

\* A variant of the table without the unique constraint on tg_id.
InsertConflictNever(store, tgId) == FALSE

\* The unique constraint on users.tg_id: an insert of a present tg_id fails
\* with error code 23505.
InsertConflict(store, tgId) == \E r \in store : r.tg_id = tgId

\* A variant whose insert writes a paid subscription instead of the trial.
NewUserRowLive(store, tgId, tgNickname, trialUntill, referredBy) ==
  [ internal_uuid |-> Cardinality(store) + 1,
    tg_id |-> tgId,
    tg_nickname |-> tgNickname,
    subscription_active |-> TRUE,
    subscription_status |-> "live",
    subscription_untill |-> trialUntill,
    earned_money |-> 0,
    number_of_referals |-> 0,
    refferals_data |-> <<>>,
    reffered_by |-> referredBy,
    gifts |-> <<>> ]

\* The row an insert of {tg_id, tg_nickname, subscription_*, reffered_by}
\* creates; every other column takes its default.
NewUserRow(store, tgId, tgNickname, trialUntill, referredBy) ==
  [ internal_uuid |-> Cardinality(store) + 1,
    tg_id |-> tgId,
    tg_nickname |-> tgNickname,
    subscription_active |-> TRUE,
    subscription_status |-> "ending",
    subscription_untill |-> trialUntill,
    earned_money |-> 0,
    number_of_referals |-> 0,
    refferals_data |-> <<>>,
    reffered_by |-> referredBy,
    gifts |-> <<>> ]

\* A variant that writes the insert's subscription fields with the nickname.
UpdateNicknameAsUpsert(store, tgId, nickname) ==
  { IF r.tg_id = tgId
      THEN [r EXCEPT !.tg_nickname = nickname,
                     !.subscription_active = TRUE,
                     !.subscription_status = "ending"]
      ELSE r : r \in store }

\* update({tg_nickname}).eq("tg_id", tgId)
UpdateNickname(store, tgId, nickname) ==
  { IF r.tg_id = tgId THEN [r EXCEPT !.tg_nickname = nickname] ELSE r : r \in store }

\* A variant that writes the expiry and leaves the record inactive.
UpdateSubscriptionRowInactive(store, tgId, newUntil) ==
  { IF r.tg_id = tgId
      THEN [r EXCEPT !.subscription_active = FALSE,
                     !.subscription_status = "null",
                     !.subscription_untill = newUntil]
      ELSE r : r \in store }

\* update({subscription_active, subscription_status, subscription_untill})
\*   .eq("tg_id", tgId)
UpdateSubscriptionRow(store, tgId, newUntil) ==
  { IF r.tg_id = tgId
      THEN [r EXCEPT !.subscription_active = TRUE,
                     !.subscription_status = "live",
                     !.subscription_untill = newUntil]
      ELSE r : r \in store }

\* .eq("tg_id", tgId).gte("earned_money", amountUsd): the rows the
\* conditional update matches.
BalanceFilter(r, tgId, amountUsd) == r.tg_id = tgId /\ r.earned_money >= amountUsd

\* update({subscription_*, earned_money}).eq("tg_id").gte("earned_money")
UpdateSubscriptionFromBalanceRow(store, tgId, amountUsd, newUntil, nextEarnedMoney) ==
  { IF BalanceFilter(r, tgId, amountUsd)
      THEN [r EXCEPT !.subscription_active = TRUE,
                     !.subscription_status = "live",
                     !.subscription_untill = newUntil,
                     !.earned_money = nextEarnedMoney]
      ELSE r : r \in store }

\* A variant whose update lost its .eq("tg_id", ...) filter.
UpdateReferrerRowUnfiltered(store, tgId, nextEarnedMoney, nextReferralsData) ==
  { [r EXCEPT !.earned_money = nextEarnedMoney,
              !.refferals_data = nextReferralsData,
              !.number_of_referals = Len(nextReferralsData)] : r \in store }

\* update({earned_money, number_of_referals, refferals_data}).eq("tg_id")
UpdateReferrerRow(store, tgId, nextEarnedMoney, nextReferralsData) ==
  { IF r.tg_id = tgId
      THEN [r EXCEPT !.earned_money = nextEarnedMoney,
                     !.number_of_referals = Len(nextReferralsData),
                     !.refferals_data = nextReferralsData]
      ELSE r : r \in store }

\* update({gifts}).eq("tg_id", tgId)
UpdateGiftsRow(store, tgId, nextGifts) ==
  { IF r.tg_id = tgId THEN [r EXCEPT !.gifts = nextGifts] ELSE r : r \in store }

\* ---------------------------------------------------------------- handlers

\* No update in hand, and no response body.
NoUpdate == [absent |-> TRUE]
NoBody == [absent |-> TRUE]

\* A handler that holds no request; after a request it keeps that request's
\* outcome (kind, tgId, ok, err, created, raced, applied, rewardPercent).
\* via says whether the ledger was called directly or by the webhook
\* handler, whose branch, update, catalog read and validation result,
\* answers sent to the pre-checkout query, chat-transport calls issued
\* (calls), catalog data sent (catalog), failures met (rewardFailed: the
\* reward threw; threw: a chat-transport call threw) and HTTP response it
\* then holds too.
IdleProc ==
  [ pc |-> "idle", kind |-> "none", tgId |-> "0", tgNickname |-> NoNick,
    months |-> 0, amountUsd |-> 0, referredBy |-> NoRef, refTgId |-> "0",
    giftedByTgId |-> "0", giftedByTgName |-> NoNick,
    trialUntill |-> NoDate, created |-> FALSE, raced |-> FALSE,
    newUntil |-> NoDate, nextEarnedMoney |-> 0, payer |-> NoUser,
    referrerTgId |-> "0", nextReferralsData |-> <<>>, rewardPercent |-> 0,
    applied |-> FALSE, giftIndex |-> 0, nextGifts |-> <<>>,
    ok |-> FALSE, err |-> "none",
    via |-> "call", branch |-> "none", upd |-> NoUpdate,
    priceFailed |-> FALSE, isValid |-> FALSE, answers |-> 0, answerOk |-> FALSE,
    rewardFailed |-> FALSE, threw |-> FALSE, calls |-> 0, catalog |-> "none",
    http |-> "none", responses |-> 0, body |-> NoBody ]

\* An optional field of a response body.
Flag(b) == IF b THEN "true" ELSE "false"

\* res.status(200).json({ok: true, processed: true, ...}) without the
\* optional fields.
Ack ==
  [ processed |-> TRUE, reason |-> FALSE, paymentApplied |-> "absent",
    preCheckoutValidated |-> "absent", callbackHandled |-> "absent",
    sent |-> "absent" ]

\* The parts of an update, its chat and what its callback data and text
\* decode to; the sender and the invoice are forgotten.
Parts(update) ==
  [ wellFormed |-> update.wellFormed, pre |-> update.pre, cb |-> update.cb,
    pay |-> update.pay, txt |-> update.txt,
    chatType |-> update.chatType, ownChat |-> update.ownChat,
    action |-> update.action, suspicious |-> update.suspicious,
    command |-> update.command ]

\* The request ends with the given status and body: the handler is idle and
\* keeps the outcome of the request and the parts of the update.
EndRequest(pr, http, body) ==
  [ IdleProc EXCEPT !.kind = pr.kind, !.tgId = pr.tgId, !.months = pr.months,
                    !.ok = pr.ok, !.err = pr.err,
                    !.created = pr.created, !.applied = pr.applied,
                    !.rewardPercent = pr.rewardPercent,
                    !.via = "webhook", !.branch = pr.branch,
                    !.upd = Parts(pr.upd), !.threw = pr.threw,
                    !.isValid = pr.isValid, !.answers = pr.answers,
                    !.answerOk = pr.answerOk, !.rewardFailed = pr.rewardFailed,
                    !.calls = pr.calls, !.catalog = pr.catalog,
                    !.http = http,
                    !.responses = IF http = "none" THEN 0 ELSE 1,
                    !.body = body ]

\* res.status(200).json(body); return
Respond(pr, body) == EndRequest(pr, "200", body)

\* An exception leaves handleTelegramMenuWebhook: the promise the route
\* handler returned rejects. No catch of the handler sends a response; the
\* framework either never answers the request or answers it with status 500.
CrashOutcomes == {"none", "500"}

Crash(pr, http) == EndRequest([pr EXCEPT !.ok = FALSE, !.err = "UNCAUGHT"], http, NoBody)

\* A ledger call made by the webhook handler returns (ok) or throws: the
\* payment branch goes on to the confirmation message or to its outer
\* catch, the command branch goes on to the menu message or to its catch.
WebhookReturn(pr, ok, err) ==
  LET q == [pr EXCEPT !.ok = ok, !.err = err]
  IN  IF pr.branch = "payment"
        THEN IF ok THEN [q EXCEPT !.pc = "pay_confirm"]
                   ELSE Respond(q, [Ack EXCEPT !.paymentApplied = "false"])
        ELSE IF ok THEN [q EXCEPT !.pc = "cmd_send"]
                   ELSE Respond(q, [Ack EXCEPT !.processed = FALSE, !.reason = TRUE])

\* The handler answers (res.status(200).json) or the ledger call returns / throws.
Finish(pr, ok, err) ==
  IF pr.via = "webhook"
    THEN WebhookReturn(pr, ok, err)
    ELSE [ IdleProc EXCEPT !.kind = pr.kind, !.tgId = pr.tgId, !.months = pr.months,
                           !.ok = ok, !.err = err,
                           !.created = pr.created, !.raced = pr.raced,
                           !.applied = pr.applied, !.rewardPercent = pr.rewardPercent ]

\* A variant that always extends from today.
NewUntilFromToday(user, todayDate, months) ==
  formatDateOnly(addMonths(todayDate, months))

\* baseDate and newUntil of activateTelegramSubscription[FromBalance].
NewUntil(user, todayDate, months) ==
  LET hasUntil == user.subscription_untill # NoDate
      currentUntil == IF hasUntil THEN parseDateOnly(user.subscription_untill) ELSE 0
      baseDate == IF hasUntil /\ currentUntil > todayDate THEN currentUntil ELSE todayDate
  IN  formatDateOnly(addMonths(baseDate, months))

\* A variant that extends the subscription and keeps the balance.
DebitedBalanceKept(user, amountUsd) == roundUsd(Fine(user.earned_money))

\* nextEarnedMoney of activateTelegramSubscriptionFromBalance.
DebitedBalance(user, amountUsd) == roundUsd(Fine(user.earned_money) - Fine(amountUsd))

\* A variant without the local balance check: the call relies on the filter
\* of the update alone.
InsufficientBalanceUnchecked(nextEarnedMoney) == FALSE

\* if (nextEarnedMoney < 0) throw INSUFFICIENT_REFERRAL_BALANCE
InsufficientBalance(nextEarnedMoney) == nextEarnedMoney < 0

\* applyReferralRewardForPurchase is entered with a purchase amount; it
\* returns at once (applied: false) for an amount <= 0.
RewardEntry(pr) ==
  IF pr.amountUsd <= 0
    THEN Finish([pr EXCEPT !.applied = FALSE], TRUE, "none")
    ELSE [pr EXCEPT !.pc = "rw_payer"]

\* What follows the return of ensureTelegramUser in each caller.
EnsureReturn(pr, user, created, todayDate) ==
  LET q == [pr EXCEPT !.created = created]
  IN  CASE pr.kind \in {"command", "ensure"} -> Finish(q, TRUE, "none")
        [] pr.kind \in {"payment", "gift_activate", "activate"} ->
             [q EXCEPT !.pc = "sub_update",
                       !.newUntil = NewUntil(user, todayDate, pr.months)]
        [] pr.kind = "balance" ->
             IF InsufficientBalance(DebitedBalance(user, pr.amountUsd))
               THEN Finish(q, FALSE, "INSUFFICIENT_REFERRAL_BALANCE")
               ELSE [q EXCEPT !.pc = "bal_update",
                              !.newUntil = NewUntil(user, todayDate, pr.months),
                              !.nextEarnedMoney = DebitedBalance(user, pr.amountUsd)]
        [] OTHER ->
             [q EXCEPT !.pc = "gift_append",
                       !.nextGifts = Append(user.gifts,
                          [ giftedByTgId |-> pr.giftedByTgId,
                            giftedByTgName |-> pr.giftedByTgName,
                            timeAmountGifted |-> pr.months,
                            dateOfGift |-> formatDateOnly(todayDate) ])]

\* ensureTelegramUser: the first select.
EnsureGet(p) ==
  /\ proc[p].pc = "ensure_get"
  /\ LET pr == proc[p]
         existingUser == getTelegramUserByTgId(users, pr.tgId)
     IN  proc' = [proc EXCEPT ![p] =
           IF existingUser # NoUser
             THEN IF pr.tgNickname = NoNick \/ pr.tgNickname = existingUser.tg_nickname
                    THEN [pr EXCEPT !.pc = "ensure_refresh"]
                    ELSE [pr EXCEPT !.pc = "ensure_nick"]
             ELSE [pr EXCEPT !.pc = "ensure_insert",
                             !.trialUntill = formatDateOnly(addDays(today, TrialDays))]]
  /\ UNCHANGED <<users, today, started>>

\* updateTelegramNicknameIfChanged: the update.
EnsureNick(p) ==
  /\ proc[p].pc = "ensure_nick"
  /\ users' = UpdateNickname(users, proc[p].tgId, proc[p].tgNickname)
  /\ proc' = [proc EXCEPT ![p].pc = "ensure_refresh"]
  /\ UNCHANGED <<today, started>>

\* ensureTelegramUser: the select after the nickname refresh.
EnsureRefresh(p) ==
  /\ proc[p].pc = "ensure_refresh"
  /\ LET refreshedUser == getTelegramUserByTgId(users, proc[p].tgId)
     IN  proc' = [proc EXCEPT ![p] =
           IF refreshedUser = NoUser
             THEN Finish(proc[p], FALSE, "USER_DISAPPEARED")
             ELSE EnsureReturn(proc[p], refreshedUser, FALSE, today)]
  /\ UNCHANGED <<users, today, started>>

\* ensureTelegramUser: the insert, with its 23505 branch.
EnsureInsert(p) ==
  /\ proc[p].pc = "ensure_insert"
  /\ LET pr == proc[p]
         row == NewUserRow(users, pr.tgId, pr.tgNickname, pr.trialUntill, pr.referredBy)
     IN  IF InsertConflict(users, pr.tgId)
           THEN /\ proc' = [proc EXCEPT ![p] = [pr EXCEPT !.pc = "ensure_reread",
                                                          !.raced = TRUE]]
                /\ users' = users
           ELSE /\ users' = users \cup {row}
                /\ proc' = [proc EXCEPT ![p] = EnsureReturn(pr, row, TRUE, today)]
  /\ UNCHANGED <<today, started>>

\* ensureTelegramUser: the select after a lost insert race.
EnsureReread(p) ==
  /\ proc[p].pc = "ensure_reread"
  /\ LET concurrentUser == getTelegramUserByTgId(users, proc[p].tgId)
     IN  proc' = [proc EXCEPT ![p] =
           IF concurrentUser = NoUser
             THEN Finish(proc[p], FALSE, "CREATE_FAILED")
             ELSE EnsureReturn(proc[p], concurrentUser, FALSE, today)]
  /\ UNCHANGED <<users, today, started>>

\* activateTelegramSubscription: the update; then the caller goes on.
UpdateSubscription(p) ==
  /\ proc[p].pc = "sub_update"
  /\ users' = UpdateSubscriptionRow(users, proc[p].tgId, proc[p].newUntil)
  /\ proc' = [proc EXCEPT ![p] =
       CASE proc[p].kind = "payment" -> RewardEntry(proc[p])
         [] proc[p].kind = "activate" -> Finish(proc[p], TRUE, "none")
         [] OTHER -> [proc[p] EXCEPT !.pc = "gift_remove"]]
  /\ UNCHANGED <<today, started>>

\* activateTelegramSubscriptionFromBalance: the conditional update; on a row
\* the dispatcher goes on to applyReferralRewardForPurchase with the updated
\* row's nickname, on none it reports INSUFFICIENT_REFERRAL_BALANCE.
UpdateFromBalance(p) ==
  /\ proc[p].pc = "bal_update"
  /\ LET pr == proc[p]
         matched == \E r \in users : BalanceFilter(r, pr.tgId, pr.amountUsd)
         stored == getTelegramUserByTgId(users, pr.tgId)
     IN  IF matched
           THEN /\ users' = UpdateSubscriptionFromBalanceRow(users, pr.tgId, pr.amountUsd,
                                                            pr.newUntil, pr.nextEarnedMoney)
                /\ proc' = [proc EXCEPT ![p] =
                     RewardEntry([pr EXCEPT !.tgNickname = stored.tg_nickname])]
           ELSE /\ users' = users
                /\ proc' = [proc EXCEPT ![p] =
                     Finish(pr, FALSE, "INSUFFICIENT_REFERRAL_BALANCE")]
  /\ UNCHANGED <<today, started>>

\* A variant that never finds the payer's entry.
FindNoEntry(referralsData, tgId) == 0

\* nextReferralsData.findIndex((entry) => entry.tgId === payer.tg_id), 1-based;
\* 0 when there is none.
FindEntryIndex(referralsData, tgId) ==
  LET hits == {i \in 1..Len(referralsData) : referralsData[i].tgId = tgId}
  IN  IF hits = {} THEN 0 ELSE CHOOSE i \in hits : \A j \in hits : i <= j

\* A variant that pays the first-purchase percent on every purchase.
RewardPercentAlwaysFirst(currentPurchaseCount) == FirstPurchasePercent

\* rewardPercent: 0.2 on the first recorded purchase, 0.1 later.
RewardPercent(currentPurchaseCount) ==
  IF currentPurchaseCount = 0 THEN FirstPurchasePercent ELSE NextPurchasePercent

\* The reward computed from the referrer row that was read: percent, amount,
\* the referral list with the payer's entry upserted, and the new balance.
RewardPlan(referrer, payer, payerTgNickname, purchaseAmountUsd) ==
  LET data == referrer.refferals_data
      existingEntryIndex == FindEntryIndex(data, payer.tg_id)
      currentPurchaseCount ==
        IF existingEntryIndex > 0 THEN data[existingEntryIndex].numberOfPurchase ELSE 0
      rewardPercent == RewardPercent(currentPurchaseCount)
      rewardAmountUsd == roundUsd(purchaseAmountUsd * rewardPercent)
      nextEntry ==
        [ tgId |-> payer.tg_id,
          tgLogin |-> IF payer.tg_nickname # NoNick THEN payer.tg_nickname
                      ELSE payerTgNickname,
          tgNickname |-> IF payerTgNickname # NoNick THEN payerTgNickname
                         ELSE payer.tg_nickname,
          numberOfPurchase |-> currentPurchaseCount + 1 ]
  IN  [ rewardPercent |-> rewardPercent,
        rewardAmountUsd |-> rewardAmountUsd,
        nextReferralsData |->
          IF existingEntryIndex > 0
            THEN [data EXCEPT ![existingEntryIndex] = nextEntry]
            ELSE Append(data, nextEntry),
        nextEarnedMoney |->
          roundUsd(Fine(referrer.earned_money) + Fine(rewardAmountUsd)) ]

\* applyReferralRewardForPurchase: the select of the payer.
RewardGetPayer(p) ==
  /\ proc[p].pc = "rw_payer"
  /\ LET pr == proc[p]
         payer == getTelegramUserByTgId(users, pr.tgId)
     IN  proc' = [proc EXCEPT ![p] =
           IF payer = NoUser
             THEN Finish([pr EXCEPT !.applied = FALSE], TRUE, "none")
           ELSE IF payer.reffered_by = NoRef
             THEN Finish([pr EXCEPT !.applied = FALSE], TRUE, "none")
           ELSE IF payer.reffered_by.tgId = payer.tg_id
             THEN Finish([pr EXCEPT !.applied = FALSE], TRUE, "none")
           ELSE [pr EXCEPT !.pc = "rw_referrer", !.payer = payer,
                           !.referrerTgId = payer.reffered_by.tgId]]
  /\ UNCHANGED <<users, today, started>>

\* applyReferralRewardForPurchase: the select of the referrer.
RewardGetReferrer(p) ==
  /\ proc[p].pc = "rw_referrer"
  /\ LET pr == proc[p]
         referrer == getTelegramUserByTgId(users, pr.referrerTgId)
         plan == RewardPlan(referrer, pr.payer, pr.tgNickname, pr.amountUsd)
     IN  proc' = [proc EXCEPT ![p] =
           IF referrer = NoUser
             THEN Finish([pr EXCEPT !.applied = FALSE], TRUE, "none")
             ELSE [pr EXCEPT !.pc = "rw_update", !.payer = NoUser,
                             !.rewardPercent = plan.rewardPercent,
                             !.nextReferralsData = plan.nextReferralsData,
                             !.nextEarnedMoney = plan.nextEarnedMoney]]
  /\ UNCHANGED <<users, today, started>>

\* applyReferralRewardForPurchase: the update of the referrer.
RewardUpdate(p) ==
  /\ proc[p].pc = "rw_update"
  /\ users' = UpdateReferrerRow(users, proc[p].referrerTgId,
                                proc[p].nextEarnedMoney, proc[p].nextReferralsData)
  /\ proc' = [proc EXCEPT ![p] = Finish([proc[p] EXCEPT !.applied = TRUE], TRUE, "none")]
  /\ UNCHANGED <<today, started>>

\* ----------------------------------------------------------------- updates

\* The handler a new request is given: the first idle one.
FreeProc(p) ==
  /\ proc[p].pc = "idle"
  /\ \A q \in Procs : proc[q].pc = "idle" => p = "h1" \/ q # "h1"

NoArg == <<>>

\* /start arguments the command parser lets through: ref_<id>.
RefArguments == { <<"ref_", IdString(i)>> : i \in Ids \cup {3} }

\* startReferralArgument.replace(/^ref_/u, "")
StripRef(argument) == argument[2]

\* Durations requests ask for: the catalog's, and one without a plan.
MonthInputs == {1, 2, 3, 12}

\* startReferralArgument !== null && referredByTgId !== String(message.from.id)
ReferralNamesAnother(argument, from) ==
  argument # NoArg /\ StripRef(argument) # IdString(from)

\* An ordinary private message /start [ref_<id>] or /menu whose sender is the
\* chat: the referral argument is resolved only when it names another id.
StartCommand(p) ==
  /\ FreeProc(p)
  /\ started < MaxRequests
  /\ \E from \in Ids, username \in Usernames, command \in {"/start", "/menu"},
        argument \in RefArguments \cup {NoArg} :
       /\ command = "/menu" => argument = NoArg
       /\ proc' = [proc EXCEPT ![p] =
            [ IdleProc EXCEPT
                !.kind = "command", !.tgId = IdString(from), !.tgNickname = username,
                !.pc = IF ReferralNamesAnother(argument, from)
                         THEN "resolve_ref" ELSE "ensure_get",
                !.refTgId = IF ReferralNamesAnother(argument, from)
                              THEN StripRef(argument) ELSE "0" ]]
  /\ started' = started + 1
  /\ UNCHANGED <<users, today>>

\* A variant that links the new sender without looking the referrer up.
ReferredByUnchecked(referrerUser, refTgId, todayDate) ==
  [ tgId |-> refTgId, tgNickname |-> NoNick, referDate |-> formatDateOnly(todayDate) ]

\* referredBy after the lookup of the referrer: set only when the row exists.
ReferredByOf(referrerUser, refTgId, todayDate) ==
  IF referrerUser # NoUser
    THEN [ tgId |-> referrerUser.tg_id,
           tgNickname |-> referrerUser.tg_nickname,
           referDate |-> formatDateOnly(todayDate) ]
    ELSE NoRef

\* /start: the select of the referrer named by the argument.
ResolveReferrer(p) ==
  /\ proc[p].pc = "resolve_ref"
  /\ LET referrerUser == getTelegramUserByTgId(users, proc[p].refTgId)
     IN  proc' = [proc EXCEPT ![p] =
           [ proc[p] EXCEPT
               !.pc = "ensure_get",
               !.refTgId = "0",
               !.referredBy = ReferredByOf(referrerUser, proc[p].refTgId, today) ]]
  /\ UNCHANGED <<users, today, started>>

\* A decoded invoice payload, or none when it does not parse.
NoPayload == [absent |-> TRUE]

\* The gift variant of invoicePayloadSchema: the payer in tgId, the one the
\* gift is for in recipientTgId.
GiftPayloads ==
  [ action : {"gift"}, months : {1, 12}, tgId : {IdString(i) : i \in Ids},
    recipientTgId : {IdString(i) : i \in Ids} ]

PaymentPayloads ==
  {NoPayload} \cup
  [ action : {"subscription"}, months : MonthInputs, tgId : {IdString(i) : i \in Ids} ]
  \cup GiftPayloads

\* The validation of a successful_payment message against the live catalog.
PaymentIsValid(from, payload, currency, totalAmount) ==
  /\ payload # NoPayload
  /\ currency = "XTR"
  /\ payload.tgId = IdString(from)
  /\ getSubscriptionPriceByMonths(payload.months) # NoPrice
  /\ totalAmount = getSubscriptionPriceByMonths(payload.months).stars

\* A successful_payment message: an invalid one is answered paymentApplied:
\* false at once; a valid one enters activateTelegramSubscription.
PaymentEntry(from, username, payload, currency, totalAmount) ==
  IF PaymentIsValid(from, payload, currency, totalAmount)
    THEN [ IdleProc EXCEPT
             !.kind = "payment", !.pc = "ensure_get",
             !.tgId = IdString(from), !.tgNickname = username,
             !.months = payload.months,
             !.amountUsd = getSubscriptionPriceByMonths(payload.months).usdt ]
    ELSE [ IdleProc EXCEPT
             !.kind = "payment", !.tgId = IdString(from), !.err = "INVALID_PAYMENT" ]

StartPayment(p) ==
  /\ FreeProc(p)
  /\ started < MaxRequests
  /\ \E from \in Ids, username \in Usernames, payload \in PaymentPayloads,
        currency \in {"XTR", "USD"}, totalAmount \in {row.stars : row \in Catalog} :
       proc' = [proc EXCEPT ![p] =
                  PaymentEntry(from, username, payload, currency, totalAmount)]
  /\ started' = started + 1
  /\ UNCHANGED <<users, today>>

\* One successful_payment notification, which Telegram may deliver again:
\* user 1 paid the 1-month plan at its catalog price.
RedeliveredPayment ==
  [ from |-> 1, username |-> "nick",
    payload |-> [action |-> "subscription", months |-> 1, tgId |-> "1"],
    currency |-> "XTR", totalAmount |-> getSubscriptionPriceByMonths(1).stars ]

\* A delivery of RedeliveredPayment.
DeliverPayment(p) ==
  /\ FreeProc(p)
  /\ started < MaxRequests
  /\ proc' = [proc EXCEPT ![p] =
       PaymentEntry(RedeliveredPayment.from, RedeliveredPayment.username,
                    RedeliveredPayment.payload, RedeliveredPayment.currency,
                    RedeliveredPayment.totalAmount)]
  /\ started' = started + 1
  /\ UNCHANGED <<users, today>>

\* referredBy values a direct call of ensureTelegramUser may pass.
LedgerReferrers ==
  {NoRef} \cup
  { [tgId |-> IdString(i), tgNickname |-> NoNick, referDate |-> formatDateOnly(StartDay)] :
      i \in Ids \cup {3} }

\* A direct call ensureTelegramUser({tgId, tgNickname, referredBy}).
StartEnsureCall(p) ==
  /\ FreeProc(p)
  /\ started < MaxRequests
  /\ \E id \in Ids, nickname \in Usernames, referredBy \in LedgerReferrers :
       proc' = [proc EXCEPT ![p] =
         [ IdleProc EXCEPT
             !.kind = "ensure", !.pc = "ensure_get", !.tgId = IdString(id),
             !.tgNickname = nickname, !.referredBy = referredBy ]]
  /\ started' = started + 1
  /\ UNCHANGED <<users, today>>

\* purchaseAmountUsd of a direct call: the catalog prices (one of them 0).
RewardAmounts == {row.usdt : row \in Catalog}

\* A direct call applyReferralRewardForPurchase({payerTgId, payerTgNickname,
\* purchaseAmountUsd}).
StartRewardCall(p) ==
  /\ FreeProc(p)
  /\ started < MaxRequests
  /\ \E payer \in Ids, nickname \in Usernames, amount \in RewardAmounts :
       proc' = [proc EXCEPT ![p] =
         RewardEntry([ IdleProc EXCEPT
                         !.kind = "reward", !.tgId = IdString(payer),
                         !.tgNickname = nickname, !.amountUsd = amount ])]
  /\ started' = started + 1
  /\ UNCHANGED <<users, today>>

\* A callback referals:balance_plan:<months> from the owner of the chat.
StartBalancePlan(p) ==
  /\ FreeProc(p)
  /\ started < MaxRequests
  /\ \E from \in Ids, months \in MonthInputs :
       LET selectedPrice == getSubscriptionPriceByMonths(months)
           q == [IdleProc EXCEPT !.kind = "balance", !.tgId = IdString(from),
                                 !.months = months]
       IN  proc' = [proc EXCEPT ![p] =
             IF selectedPrice = NoPrice
               THEN [q EXCEPT !.err = "PLAN_NOT_FOUND"]
             ELSE IF selectedPrice.usdt <= 0
               THEN [q EXCEPT !.err = "INVALID_AMOUNT"]
             ELSE [q EXCEPT !.pc = "ensure_get", !.amountUsd = selectedPrice.usdt]]
  /\ started' = started + 1
  /\ UNCHANGED <<users, today>>

\* addTelegramGift(recipient, giver, months) without a referrer to link.
StartAddGift(p) ==
  /\ FreeProc(p)
  /\ started < MaxRequests
  /\ \E recipient \in Ids, giver \in Ids, months \in {1, 12} :
       proc' = [proc EXCEPT ![p] =
         [ IdleProc EXCEPT
             !.kind = "gift_add", !.pc = "ensure_get", !.tgId = IdString(recipient),
             !.giftedByTgId = IdString(giver), !.months = months ]]
  /\ started' = started + 1
  /\ UNCHANGED <<users, today>>

\* addTelegramGift: the update of the gift list.
GiftAppend(p) ==
  /\ proc[p].pc = "gift_append"
  /\ users' = UpdateGiftsRow(users, proc[p].tgId, proc[p].nextGifts)
  /\ proc' = [proc EXCEPT ![p] = Finish(proc[p], TRUE, "none")]
  /\ UNCHANGED <<today, started>>

\* activateTelegramGift(tgId, giftIndex)
StartActivateGift(p) ==
  /\ FreeProc(p)
  /\ started < MaxRequests
  /\ \E id \in Ids, giftIndex \in 0..MaxGiftIndex :
       proc' = [proc EXCEPT ![p] =
         [ IdleProc EXCEPT
             !.kind = "gift_activate", !.pc = "gift_get", !.tgId = IdString(id),
             !.giftIndex = giftIndex ]]
  /\ started' = started + 1
  /\ UNCHANGED <<users, today>>

\* A variant that removes the first gift whatever the index.
RemoveFirstGift(gifts, giftIndex) == Tail(gifts)

\* nextGifts.splice(giftIndex, 1), giftIndex 0-based.
RemoveAt(gifts, giftIndex) ==
  [ i \in 1..(Len(gifts) - 1) |-> IF i <= giftIndex THEN gifts[i] ELSE gifts[i + 1] ]

\* activateTelegramGift: the select, the bounds check, and the gift chosen.
GiftGet(p) ==
  /\ proc[p].pc = "gift_get"
  /\ LET pr == proc[p]
         user == getTelegramUserByTgId(users, pr.tgId)
     IN  proc' = [proc EXCEPT ![p] =
           IF user = NoUser
             THEN Finish(pr, FALSE, "USER_NOT_FOUND")
           ELSE IF pr.giftIndex >= Len(user.gifts)
             THEN Finish(pr, FALSE, "GIFT_NOT_FOUND")
           ELSE [pr EXCEPT !.pc = "ensure_get",
                           !.months = user.gifts[pr.giftIndex + 1].timeAmountGifted,
                           !.nextGifts = RemoveAt(user.gifts, pr.giftIndex)]]
  /\ UNCHANGED <<users, today, started>>

\* activateTelegramGift: the update of the shortened gift list.
GiftRemove(p) ==
  /\ proc[p].pc = "gift_remove"
  /\ users' = UpdateGiftsRow(users, proc[p].tgId, proc[p].nextGifts)
  /\ proc' = [proc EXCEPT ![p] = Finish(proc[p], TRUE, "none")]
  /\ UNCHANGED <<today, started>>

\* months of a direct activation call; 0 is rejected before any store call.
ActivationMonths == {0, 1, 2, 12}

\* A direct call activateTelegramSubscription({tgId, tgNickname, months}).
StartActivateCall(p) ==
  /\ FreeProc(p)
  /\ started < MaxRequests
  /\ \E id \in Ids, months \in ActivationMonths :
       proc' = [proc EXCEPT ![p] =
         IF months <= 0
           THEN [ IdleProc EXCEPT !.kind = "activate", !.tgId = IdString(id),
                                  !.months = months, !.err = "INVALID_MONTHS" ]
           ELSE [ IdleProc EXCEPT !.kind = "activate", !.pc = "ensure_get",
                                  !.tgId = IdString(id), !.months = months ]]
  /\ started' = started + 1
  /\ UNCHANGED <<users, today>>

\* ------------------------------------------------------- webhook handler

\* Outcomes of a chat-transport call (postTelegramApi): a result with ok
\* true; a result with ok false (no bot token, an error status, or a body
\* with ok: false); or the fetch rejects, which postTelegramApi does not
\* catch, so the call throws.
TransportOutcomes == {"ok", "error", "throw"}

\* hasAccessToServers(subscription_status, subscription_active)
hasAccessToServers(subscriptionStatus, subscriptionActive) ==
  subscriptionActive \/ subscriptionStatus = "live" \/ subscriptionStatus = "ending"

\* An update that parses, carrying no optional part. The parts: pre
\* (pre_checkout_query), cb (callback_query), pay (a message with
\* successful_payment), txt (a message with text). from and username
\* describe the sender; chatType and ownChat (from.id equals chat.id) the
\* chat of the message or of the callback's message; payload, currency and
\* totalAmount the invoice; action what the callback data decodes to;
\* suspicious, command and argument the result of getTelegramCommand(text).
BaseUpdate ==
  [ wellFormed |-> TRUE, pre |-> FALSE, cb |-> FALSE, pay |-> FALSE, txt |-> FALSE,
    from |-> 1, username |-> NoNick, chatType |-> "private", ownChat |-> TRUE,
    suspicious |-> FALSE, payload |-> NoPayload, currency |-> "XTR", totalAmount |-> 1,
    action |-> "none", command |-> "/menu", argument |-> NoArg ]

\* Updates with a pre-checkout query alone, and with a payment message alone.
InvoiceUpdates ==
  { [BaseUpdate EXCEPT !.pre = isPre, !.pay = ~isPre, !.from = from,
                       !.username = username, !.payload = payload,
                       !.currency = currency, !.totalAmount = totalAmount] :
      isPre \in BOOLEAN, from \in Ids, username \in Usernames,
      payload \in PaymentPayloads, currency \in {"XTR", "USD"},
      totalAmount \in {row.stars : row \in Catalog} }

\* Updates with a callback query alone, pressed in the sender's own private
\* chat, in another private chat or in a group: data no decoder knows, a
\* countries action, gift:activate:<index>.
CallbackUpdates ==
  { [BaseUpdate EXCEPT !.cb = TRUE, !.from = from, !.chatType = chat[1],
                       !.ownChat = chat[2], !.action = action] :
      from \in Ids,
      chat \in {<<"private", TRUE>>, <<"private", FALSE>>, <<"group", FALSE>>},
      action \in {"none", "countries", "country", "vps", "gift_activate"} }

\* Updates with a text message alone, from the sender's own private chat,
\* another private chat or a group. The text parses to a command of the
\* bot, to another command (/help), to no command ("none") or to a
\* suspicious command, whose command is null.
TextUpdates ==
  { update \in
      { [BaseUpdate EXCEPT !.txt = TRUE, !.from = from, !.username = username,
                           !.chatType = chat[1], !.ownChat = chat[2],
                           !.suspicious = suspicious, !.command = command,
                           !.argument = argument] :
          from \in Ids, username \in Usernames,
          chat \in {<<"private", TRUE>>, <<"private", FALSE>>, <<"group", FALSE>>},
          suspicious \in BOOLEAN,
          command \in {"/start", "/menu", "/clear", "/help", "none"},
          argument \in RefArguments \cup {NoArg} } :
      /\ update.command # "/start" => update.argument = NoArg
      /\ update.suspicious => update.command = "none" }

\* Updates carrying several parts at once, each part one its branch would
\* act on: user 1's invoice for the 1-month plan at its price, the countries
\* callback, /start.
MixedUpdates ==
  { [BaseUpdate EXCEPT !.pre = parts[1], !.cb = parts[2], !.pay = parts[3],
                       !.txt = parts[4],
                       !.payload = [action |-> "subscription", months |-> 1, tgId |-> "1"],
                       !.totalAmount = getSubscriptionPriceByMonths(1).stars,
                       !.action = "countries", !.command = "/start"] :
      parts \in { q \in [1..4 -> BOOLEAN] :
                    Cardinality({i \in 1..4 : q[i]}) >= 2 } }

Updates ==
  {[BaseUpdate EXCEPT !.wellFormed = FALSE], BaseUpdate}
    \cup InvoiceUpdates \cup CallbackUpdates \cup TextUpdates \cup MixedUpdates

\* A variant that does not compare the payload's payer with the sender.
InvoiceNamesAnySender(update) ==
  /\ update.payload # NoPayload
  /\ update.currency = "XTR"

\* invoicePayload !== null && currency === "XTR" &&
\* invoicePayload.tgId === String(from.id)
InvoiceNamesSender(update) ==
  /\ update.payload # NoPayload
  /\ update.currency = "XTR"
  /\ update.payload.tgId = IdString(update.from)

\* A variant without the ownership check.
OwnershipNeverChecked(update) == FALSE

\* callbackChatId !== undefined && callbackChatType === "private" &&
\* callbackQuery.from.id !== callbackChatId
OwnershipMismatch(update) == update.chatType = "private" /\ ~update.ownChat

\* A variant without the comparison of sender and chat.
MessageRefusedByTextAlone(update) ==
  \/ update.chatType # "private"
  \/ update.suspicious
  \/ update.command \notin {"/start", "/menu", "/clear"}

\* The gates of an ordinary message: chat.type !== "private"; from.id !==
\* chat.id; parsedCommand.isSuspicious; a command other than /start, /menu
\* and /clear.
MessageRefused(update) ==
  \/ update.chatType # "private"
  \/ ~update.ownChat
  \/ update.suspicious
  \/ update.command \notin {"/start", "/menu", "/clear"}

\* expectedPrice !== null && total_amount === expectedPrice.stars
PriceMatches(update) ==
  LET expectedPrice == getSubscriptionPriceByMonths(update.payload.months)
  IN  expectedPrice # NoPrice /\ update.totalAmount = expectedPrice.stars

\* purchaseAmountUsd handed to applyReferralRewardForPurchase.
RewardBase(validatedPrice, totalAmount) == validatedPrice.usdt

\* A variant that looks at the message before the queries.
BranchOfMessageFirst(update) ==
  IF ~update.wellFormed THEN "invalid"
  ELSE IF update.pay THEN "payment"
  ELSE IF update.txt THEN "command"
  ELSE IF update.pre THEN "pre_checkout"
  ELSE IF update.cb THEN "callback"
  ELSE "no_message"

\* The chain of if-statements of handleTelegramMenuWebhook: the first that
\* holds handles the update and returns.
BranchOf(update) ==
  IF ~update.wellFormed THEN "invalid"
  ELSE IF update.pre THEN "pre_checkout"
  ELSE IF update.cb THEN "callback"
  ELSE IF ~(update.pay \/ update.txt) THEN "no_message"
  ELSE IF update.pay THEN "payment"
  ELSE "command"

\* handleTelegramMenuWebhook up to its first await: the branch is chosen and
\* the checks that need no call are made.
HandleUpdate(update) ==
  LET pr == [ IdleProc EXCEPT !.via = "webhook", !.upd = update,
                              !.branch = BranchOf(update),
                              !.tgId = IdString(update.from),
                              !.tgNickname = update.username ]
      refused == [Ack EXCEPT !.processed = FALSE, !.reason = TRUE]
  IN  IF pr.branch \in {"invalid", "no_message"}
        THEN Respond(pr, refused)
      ELSE IF pr.branch = "pre_checkout"
        THEN [pr EXCEPT !.pc = IF InvoiceNamesSender(update)
                                 THEN "pre_price" ELSE "pre_answer"]
      ELSE IF pr.branch = "callback"
        THEN IF OwnershipMismatch(update)
               THEN Respond(pr, [Ack EXCEPT !.callbackHandled = "false",
                                            !.reason = TRUE])
               ELSE [pr EXCEPT !.pc = "cb_answer"]
      ELSE IF pr.branch = "payment"
        THEN [pr EXCEPT !.kind = "payment",
                        !.pc = IF InvoiceNamesSender(update)
                                 THEN "pay_price" ELSE "pay_reject"]
      ELSE IF MessageRefused(update)
        THEN Respond(pr, refused)
      ELSE IF update.command = "/clear"
        THEN [pr EXCEPT !.pc = "cmd_clear"]
      ELSE [pr EXCEPT !.kind = "command",
                      !.pc = IF ReferralNamesAnother(update.argument, update.from)
                               THEN "resolve_ref" ELSE "ensure_get",
                      !.refTgId = IF ReferralNamesAnother(update.argument, update.from)
                                    THEN StripRef(update.argument) ELSE "0"]

\* An update arrives at the webhook while no other is being handled.
Receive(p) ==
  /\ FreeProc(p)
  /\ \A q \in Procs : proc[q].pc = "idle"
  /\ started < MaxRequests
  /\ \E update \in Updates : proc' = [proc EXCEPT ![p] = HandleUpdate(update)]
  /\ started' = started + 1
  /\ UNCHANGED <<users, today>>

\* Pre-checkout: the catalog read, which may fail (caught: stays invalid).
PreCheckoutPrice(p) ==
  /\ proc[p].pc = "pre_price"
  /\ \E failed \in BOOLEAN :
       proc' = [proc EXCEPT ![p] =
         [proc[p] EXCEPT !.pc = "pre_answer", !.priceFailed = failed,
                         !.isValid = ~failed /\ PriceMatches(proc[p].upd)]]
  /\ UNCHANGED <<users, today, started>>

\* Pre-checkout: answerTelegramPreCheckoutQuery({ok: isValidPayload}), not
\* inside a try, then the response.
PreCheckoutAnswer(p) ==
  /\ proc[p].pc = "pre_answer"
  /\ \E outcome \in TransportOutcomes, http \in CrashOutcomes :
       LET q == [proc[p] EXCEPT !.answers = @ + 1, !.calls = @ + 1,
                                !.answerOk = proc[p].isValid]
       IN  proc' = [proc EXCEPT ![p] =
             IF outcome = "throw"
               THEN Crash([q EXCEPT !.threw = TRUE], http)
               ELSE Respond(q, [Ack EXCEPT !.preCheckoutValidated = Flag(q.isValid)])]
  /\ UNCHANGED <<users, today, started>>

\* The callback actions handleTelegramMenuWebhook decodes and has a branch
\* for (menu key, purchase, faq, referals, countries, how-to), of which the
\* model has the button of the countries menu ("countries") and the two
\* countries actions ("country": the servers of a country; "vps": the
\* connection configs of a server). No decoder of gift actions is called.
Dispatched(action) == action \in {"countries", "country", "vps"}

\* The branch of the countries menu runs in a try whose catch answers
\* sent: false; the branch of the countries actions reads the sender and
\* sends the subscription-required message outside any try.
InsideTry(action) == action = "countries"

\* How many entries the catalog read by a branch holds.
CatalogSizes == 0..2

\* Every sender with a record passes.
hasRecord(telegramUser) == telegramUser # NoUser

\* telegramUser !== null && hasAccessToServers(subscription_status,
\* subscription_active)
hasServersAccess(telegramUser) ==
  /\ telegramUser # NoUser
  /\ hasAccessToServers(telegramUser.subscription_status,
                        telegramUser.subscription_active)

\* Callback: answerTelegramCallbackQuery, not inside a try; data that no
\* decoder of the handler knows is acknowledged, the countries menu and
\* actions go on.
CallbackAnswer(p) ==
  /\ proc[p].pc = "cb_answer"
  /\ \E outcome \in TransportOutcomes, http \in CrashOutcomes :
       LET q == [proc[p] EXCEPT !.calls = @ + 1]
       IN  proc' = [proc EXCEPT ![p] =
             IF outcome = "throw" THEN Crash([q EXCEPT !.threw = TRUE], http)
             ELSE IF ~Dispatched(q.upd.action)
               THEN Respond(q, [Ack EXCEPT !.callbackHandled = "false"])
             ELSE [q EXCEPT !.pc = "cb_user"]]
  /\ UNCHANGED <<users, today, started>>

\* Callback, countries menu or action: getTelegramUserByTgId of the sender
\* and the access check.
CallbackCountries(p) ==
  /\ proc[p].pc = "cb_user"
  /\ \E failed \in BOOLEAN, http \in CrashOutcomes :
       LET telegramUser == getTelegramUserByTgId(users, proc[p].tgId)
       IN  proc' = [proc EXCEPT ![p] =
             IF failed
               THEN IF InsideTry(proc[p].upd.action)
                      THEN Respond(proc[p], [Ack EXCEPT !.callbackHandled = "true",
                                                        !.sent = "false"])
                      ELSE Crash(proc[p], http)
             ELSE [proc[p] EXCEPT !.pc = IF hasServersAccess(telegramUser)
                                           THEN "cb_list" ELSE "cb_required"]]
  /\ UNCHANGED <<users, today, started>>

\* Callback, countries menu or action without access:
\* sendSubscriptionRequiredForServersMessage.
CallbackRequired(p) ==
  /\ proc[p].pc = "cb_required"
  /\ \E outcome \in TransportOutcomes, http \in CrashOutcomes :
       LET q == [proc[p] EXCEPT !.calls = @ + 1,
                                !.threw = (outcome = "throw")]
       IN  proc' = [proc EXCEPT ![p] =
             IF outcome = "throw" /\ ~InsideTry(q.upd.action)
               THEN Crash(q, http)
               ELSE Respond(q, [Ack EXCEPT !.callbackHandled = "true",
                                           !.sent = Flag(outcome = "ok")])]
  /\ UNCHANGED <<users, today, started>>

\* Callback, countries menu or action with access: the catalog (the
\* countries, the servers of the country, the configs of the server) is
\* read and sent inside a try whose catch answers sent: false. An empty
\* catalog is answered with a plain text; the countries and the servers
\* are sent in one message, the configs in one message each after an
\* introduction.
CallbackList(p) ==
  /\ proc[p].pc = "cb_list"
  /\ \E readFailed \in BOOLEAN, size \in CatalogSizes,
        outcome \in TransportOutcomes :
       LET q == proc[p]
           messages == IF q.upd.action = "vps" /\ size > 0 THEN 1 + size ELSE 1
           handled == [Ack EXCEPT !.callbackHandled = "true"]
       IN  proc' = [proc EXCEPT ![p] =
             IF readFailed
               THEN Respond(q, [handled EXCEPT !.sent = "false"])
               ELSE Respond([q EXCEPT !.calls = @ + messages,
                                      !.threw = (outcome = "throw"),
                                      !.catalog = IF size > 0 THEN q.upd.action
                                                  ELSE "none"],
                            [handled EXCEPT !.sent = Flag(outcome = "ok")])]
  /\ UNCHANGED <<users, today, started>>

\* Payment: the catalog read, which may fail (caught: stays invalid); a
\* valid payment enters activateTelegramSubscription.
PaymentPrice(p) ==
  /\ proc[p].pc = "pay_price"
  /\ \E failed \in BOOLEAN :
       LET update == proc[p].upd
           paymentIsValid == ~failed /\ PriceMatches(update)
           validatedPrice == getSubscriptionPriceByMonths(update.payload.months)
       IN  proc' = [proc EXCEPT ![p] =
             IF paymentIsValid
               THEN [proc[p] EXCEPT !.isValid = TRUE, !.pc = "ensure_get",
                                    !.priceFailed = failed,
                                    !.months = update.payload.months,
                                    !.amountUsd = RewardBase(validatedPrice,
                                                             update.totalAmount)]
               ELSE [proc[p] EXCEPT !.pc = "pay_reject", !.priceFailed = failed]]
  /\ UNCHANGED <<users, today, started>>

\* Payment that did not validate: the apology message, not inside a try,
\* then paymentApplied: false.
PaymentReject(p) ==
  /\ proc[p].pc = "pay_reject"
  /\ \E outcome \in TransportOutcomes, http \in CrashOutcomes :
       LET q == [proc[p] EXCEPT !.calls = @ + 1]
       IN  proc' = [proc EXCEPT ![p] =
             IF outcome = "throw" THEN Crash([q EXCEPT !.threw = TRUE], http)
             ELSE Respond(q, [Ack EXCEPT !.paymentApplied = "false"])]
  /\ UNCHANGED <<users, today, started>>

\* Payment applied: the confirmation message, inside the try that also holds
\* the activation, so a throwing send ends in the catch that answers
\* paymentApplied: false.
PaymentConfirm(p) ==
  /\ proc[p].pc = "pay_confirm"
  /\ \E outcome \in TransportOutcomes :
       proc' = [proc EXCEPT ![p] =
         Respond([proc[p] EXCEPT !.threw = (outcome = "throw"), !.calls = @ + 1],
                 [Ack EXCEPT !.paymentApplied = Flag(outcome # "throw")])]
  /\ UNCHANGED <<users, today, started>>

\* /start, /menu: the menu message, not inside a try, then the response.
CommandSend(p) ==
  /\ proc[p].pc = "cmd_send"
  /\ \E outcome \in TransportOutcomes, http \in CrashOutcomes :
       LET q == [proc[p] EXCEPT !.calls = @ + 1]
       IN  proc' = [proc EXCEPT ![p] =
             IF outcome = "throw" THEN Crash([q EXCEPT !.threw = TRUE], http)
             ELSE Respond(q, [Ack EXCEPT !.sent = Flag(outcome = "ok")])]
  /\ UNCHANGED <<users, today, started>>

\* /clear: clearTelegramChatHistoryBySweep, whose deleteMessage calls are
\* not inside a try, then the response.
CommandClear(p) ==
  /\ proc[p].pc = "cmd_clear"
  /\ \E outcome \in TransportOutcomes, http \in CrashOutcomes :
       LET q == [proc[p] EXCEPT !.calls = @ + 1]
       IN  proc' = [proc EXCEPT ![p] =
             IF outcome = "throw" THEN Crash([q EXCEPT !.threw = TRUE], http)
             ELSE Respond(q, Ack)]
  /\ UNCHANGED <<users, today, started>>

\* Positions at which a webhook handler is about to make a store call of
\* the ledger.
LedgerCallPcs ==
  {"resolve_ref", "ensure_get", "ensure_nick", "ensure_refresh", "ensure_insert",
   "sub_update", "rw_payer", "rw_referrer", "rw_update"}

\* The store call a webhook handler is about to make returns an error and
\* writes nothing; the ledger function throws. The referral lookup and the
\* reward have catches of their own that go on; any other failure ends in
\* the branch's catch.
StoreFails(p) ==
  /\ proc[p].via = "webhook"
  /\ proc[p].pc \in LedgerCallPcs
  /\ proc' = [proc EXCEPT ![p] =
       CASE proc[p].pc = "resolve_ref" ->
              [proc[p] EXCEPT !.pc = "ensure_get", !.refTgId = "0"]
         [] proc[p].pc \in {"rw_payer", "rw_referrer", "rw_update"} ->
              [proc[p] EXCEPT !.pc = "pay_confirm", !.rewardFailed = TRUE]
         [] OTHER -> WebhookReturn(proc[p], FALSE, "STORE_ERROR")]
  /\ UNCHANGED <<users, today, started>>

\* Midnight (UTC) passes.
Tick ==
  /\ today < StartDay + MaxTicks
  /\ today' = today + 1
  /\ UNCHANGED <<users, proc, started>>

\* ----------------------------------------------------------- specification

\* An empty users table.
EmptyStore == {}

\* The table after user 2 sent /start and user 1 sent /start ref_2, both on
\* the first day and without a username.
LinkedStore ==
  LET trial == formatDateOnly(addDays(StartDay, TrialDays))
      referrerRow == NewUserRow(EmptyStore, "2", NoNick, trial, NoRef)
      payerRow == NewUserRow({referrerRow}, "1", NoNick, trial,
                    [tgId |-> "2", tgNickname |-> NoNick,
                     referDate |-> formatDateOnly(StartDay)])
  IN  {referrerRow, payerRow}

\* The table after user 3 sent /start, user 2 sent /start ref_3, user 1 sent
\* /start ref_2, and user 1 paid the 12-month plan, all on the first day and
\* without usernames: user 2 holds the first-purchase reward and has a
\* referrer of its own.
ChainStore ==
  LET trial == formatDateOnly(addDays(StartDay, TrialDays))
      link(id) == [tgId |-> id, tgNickname |-> NoNick,
                   referDate |-> formatDateOnly(StartDay)]
      row3 == NewUserRow(EmptyStore, "3", NoNick, trial, NoRef)
      row2 == NewUserRow({row3}, "2", NoNick, trial, link("3"))
      row1 == NewUserRow({row3, row2}, "1", NoNick, trial, link("2"))
      s3 == UpdateSubscriptionRow({row3, row2, row1}, "1", NewUntil(row1, StartDay, 12))
      plan == RewardPlan(row2, row1, NoNick, getSubscriptionPriceByMonths(12).usdt)
  IN  UpdateReferrerRow(s3, "2", plan.nextEarnedMoney, plan.nextReferralsData)

\* The tables a behaviour starts from: each is reached from the empty table
\* by the requests named above.
InitStores == {EmptyStore, LinkedStore, ChainStore}

Init ==
  /\ users \in InitStores
  /\ today = StartDay
  /\ proc = [p \in Procs |-> IdleProc]
  /\ started = 0

Step(p) ==
  \/ StartCommand(p)
  \/ ResolveReferrer(p)
  \/ EnsureGet(p)
  \/ EnsureNick(p)
  \/ EnsureRefresh(p)
  \/ EnsureInsert(p)
  \/ EnsureReread(p)
  \/ StartPayment(p)
  \/ UpdateSubscription(p)
  \/ StartBalancePlan(p)
  \/ UpdateFromBalance(p)
  \/ RewardGetPayer(p)
  \/ RewardGetReferrer(p)
  \/ RewardUpdate(p)
  \/ StartAddGift(p)
  \/ GiftAppend(p)
  \/ StartActivateGift(p)
  \/ GiftGet(p)
  \/ GiftRemove(p)

Next == (\E p \in Procs : Step(p)) \/ Tick

Spec == Init /\ [][Next]_vars

\* No handler holds a request.
Quiescent == \A p \in Procs : proc[p].pc = "idle"

\* Requests handled one after another: a request starts only when no other
\* is in flight, so the insert never meets a concurrent insert.
SeqStart(p) ==
  /\ Quiescent
  /\ \/ StartCommand(p)
     \/ StartPayment(p)
     \/ StartBalancePlan(p)
     \/ StartAddGift(p)
     \/ StartActivateGift(p)

SeqStep(p) ==
  \/ ResolveReferrer(p)
  \/ EnsureGet(p)
  \/ EnsureNick(p)
  \/ EnsureRefresh(p)
  \/ EnsureInsert(p)
  \/ UpdateSubscription(p)
  \/ UpdateFromBalance(p)
  \/ RewardGetPayer(p)
  \/ RewardGetReferrer(p)
  \/ RewardUpdate(p)
  \/ GiftAppend(p)
  \/ GiftGet(p)
  \/ GiftRemove(p)

SeqNext == (\E p \in Procs : SeqStart(p) \/ SeqStep(p)) \/ Tick

SeqSpec == Init /\ [][SeqNext]_vars

\* The ledger called directly, one call after another: ensureTelegramUser
\* with any referredBy, applyReferralRewardForPurchase with any payer.
LedgerStart(p) ==
  /\ Quiescent
  /\ \/ StartEnsureCall(p)
     \/ StartRewardCall(p)

LedgerStep(p) ==
  \/ EnsureGet(p)
  \/ EnsureNick(p)
  \/ EnsureRefresh(p)
  \/ EnsureInsert(p)
  \/ RewardGetPayer(p)
  \/ RewardGetReferrer(p)
  \/ RewardUpdate(p)

LedgerNext == \E p \in Procs : LedgerStart(p) \/ LedgerStep(p)

LedgerSpec == Init /\ [][LedgerNext]_vars

\* Deliveries of one successful_payment notification, concurrent or not,
\* to a table in which the payer has a referrer.
RedeliveryInit ==
  /\ users = ChainStore
  /\ today = StartDay
  /\ proc = [p \in Procs |-> IdleProc]
  /\ started = 0

RedeliveryStep(p) ==
  \/ DeliverPayment(p)
  \/ EnsureGet(p)
  \/ EnsureNick(p)
  \/ EnsureRefresh(p)
  \/ UpdateSubscription(p)
  \/ RewardGetPayer(p)
  \/ RewardGetReferrer(p)
  \/ RewardUpdate(p)

RedeliveryNext == (\E p \in Procs : RedeliveryStep(p)) \/ Tick

RedeliverySpec == RedeliveryInit /\ [][RedeliveryNext]_vars

\* The table holding user 1 alone, created by /start on the given day.
TrialStore(createdDay) ==
  { NewUserRow(EmptyStore, "1", NoNick,
               formatDateOnly(addDays(createdDay, TrialDays)), NoRef) }

\* The table holding user 1 alone with the nullable subscription columns
\* null.
NullExpiryStore ==
  { [ NewUserRow(EmptyStore, "1", NoNick, NoDate, NoRef)
        EXCEPT !.subscription_active = FALSE, !.subscription_status = "null" ] }

\* How many days before the first day user 1 may have been created.
MaxAge == 4

\* Tables whose expiry is absent, in the past, today, tomorrow (a month end)
\* or later.
ActivationStores ==
  {NullExpiryStore} \cup {TrialStore(StartDay - age) : age \in 0..MaxAge}

ActivationInit ==
  /\ users \in ActivationStores
  /\ today = StartDay
  /\ proc = [p \in Procs |-> IdleProc]
  /\ started = 0

ActivationStep(p) ==
  \/ (Quiescent /\ StartActivateCall(p))
  \/ EnsureGet(p)
  \/ EnsureRefresh(p)
  \/ EnsureInsert(p)
  \/ UpdateSubscription(p)

ActivationNext == (\E p \in Procs : ActivationStep(p)) \/ Tick

\* activateTelegramSubscription called directly, one call after another.
ActivationSpec == ActivationInit /\ [][ActivationNext]_vars

\* A gift entry as addTelegramGift appends it on the first day.
GiftFrom(giver, months) ==
  [ giftedByTgId |-> giver, giftedByTgName |-> NoNick,
    timeAmountGifted |-> months, dateOfGift |-> formatDateOnly(StartDay) ]

\* The gift lists of the table below, in insertion order.
GiftsOfOne == <<GiftFrom("2", 1), GiftFrom("2", 12), GiftFrom("2", 3)>>
GiftsOfTwo == <<GiftFrom("1", 1)>>

\* The table after users 1 and 2 sent /start and gave each other the gifts
\* above, all on the first day and without usernames.
GiftStore ==
  LET trial == formatDateOnly(addDays(StartDay, TrialDays))
      row1 == NewUserRow(EmptyStore, "1", NoNick, trial, NoRef)
      row2 == NewUserRow({row1}, "2", NoNick, trial, NoRef)
  IN  UpdateGiftsRow(UpdateGiftsRow({row1, row2}, "1", GiftsOfOne), "2", GiftsOfTwo)

GiftInit ==
  /\ users = GiftStore
  /\ today = StartDay
  /\ proc = [p \in Procs |-> IdleProc]
  /\ started = 0

GiftStep(p) ==
  \/ (Quiescent /\ StartActivateGift(p))
  \/ (Quiescent /\ StartAddGift(p))
  \/ GiftGet(p)
  \/ EnsureGet(p)
  \/ EnsureRefresh(p)
  \/ UpdateSubscription(p)
  \/ GiftRemove(p)
  \/ GiftAppend(p)

GiftNext == (\E p \in Procs : GiftStep(p)) \/ Tick

\* Gift calls (activateTelegramGift, addTelegramGift) made one after another
\* on a table whose users hold gifts; the gift menu shown to a user lists the
\* gifts of GiftStore by position.
GiftSpec == GiftInit /\ [][GiftNext]_vars

WebhookInit ==
  /\ users \in {EmptyStore, NullExpiryStore, ChainStore}
  /\ today = StartDay
  /\ proc = [p \in Procs |-> IdleProc]
  /\ started = 0

WebhookStep(p) ==
  \/ Receive(p)
  \/ PreCheckoutPrice(p)
  \/ PreCheckoutAnswer(p)
  \/ CallbackAnswer(p)
  \/ CallbackCountries(p)
  \/ CallbackRequired(p)
  \/ CallbackList(p)
  \/ PaymentPrice(p)
  \/ PaymentReject(p)
  \/ PaymentConfirm(p)
  \/ CommandSend(p)
  \/ CommandClear(p)
  \/ ResolveReferrer(p)
  \/ EnsureGet(p)
  \/ EnsureNick(p)
  \/ EnsureRefresh(p)
  \/ EnsureInsert(p)
  \/ UpdateSubscription(p)
  \/ RewardGetPayer(p)
  \/ RewardGetReferrer(p)
  \/ RewardUpdate(p)
  \/ StoreFails(p)

WebhookNext == \E p \in Procs : WebhookStep(p)

\* handleTelegramMenuWebhook, one update at a time, with store calls and
\* chat-transport calls that may fail.
WebhookSpec == WebhookInit /\ [][WebhookNext]_vars

\* ------------------------------------------------------- invoice payload

\* A text is a sequence of characters. The decimal digits, in order.
DigitChars == <<"0", "1", "2", "3", "4", "5", "6", "7", "8", "9">>

IsDigit(c) == \E i \in 1..Len(DigitChars) : DigitChars[i] = c

DigitValue(c) == (CHOOSE i \in 1..Len(DigitChars) : DigitChars[i] = c) - 1

\* The value of a run of decimal digits.
RECURSIVE DigitsValue(_)
DigitsValue(digits) ==
  IF digits = <<>> THEN 0
  ELSE 10 * DigitsValue(SubSeq(digits, 1, Len(digits) - 1))
         + DigitValue(digits[Len(digits)])

\* String(n) of an integer n; JSON.stringify writes an integer the same way.
RECURSIVE NumberText(_)
NumberText(n) ==
  IF n < 0 THEN <<"-">> \o NumberText(-n)
  ELSE IF n < 10 THEN <<DigitChars[n + 1]>>
  ELSE NumberText(n \div 10) \o <<DigitChars[(n % 10) + 1]>>

\* The words of the payload, as texts.
Word ==
  [ action |-> <<"a", "c", "t", "i", "o", "n">>,
    months |-> <<"m", "o", "n", "t", "h", "s">>,
    tgId |-> <<"t", "g", "I", "d">>,
    recipientTgId |-> <<"r", "e", "c", "i", "p", "i", "e", "n", "t", "T", "g", "I", "d">>,
    subscription |-> <<"s", "u", "b", "s", "c", "r", "i", "p", "t", "i", "o", "n">>,
    gift |-> <<"g", "i", "f", "t">> ]

\* JSON.stringify of an object whose members are given in order as
\* <<key, text of the value>>; a string value is written in quotes.
Quoted(text) == <<"\"">> \o text \o <<"\"">>

RECURSIVE JsonMembers(_)
JsonMembers(members) ==
  IF members = <<>> THEN <<>>
  ELSE Quoted(members[1][1]) \o <<":">> \o members[1][2]
         \o (IF Len(members) = 1 THEN <<>> ELSE <<",">>)
         \o JsonMembers(Tail(members))

JsonObject(members) == <<"{">> \o JsonMembers(members) \o <<"}">>

\* The result null of a parser.
NoJson == [absent |-> TRUE]

\* parseJsonSafe: JSON.parse(value), null when it throws. The grammar is
\* JSON's for objects of strings and numbers: strings without escapes,
\* numbers with an optional sign and fraction, blanks between the tokens.
\* The result is a string [type, chars], a number [type, int, integral] or
\* an object [type, members], its members in the order of the text.
parseJsonSafe(text) ==
  LET n == Len(text)
      At(i) == IF i <= n THEN text[i] ELSE "EOF"
      Fail == [ok |-> FALSE]
      RECURSIVE Skip(_)
      Skip(i) == IF At(i) = " " THEN Skip(i + 1) ELSE i
      RECURSIVE StringEnd(_)
      StringEnd(i) ==
        IF i > n THEN 0 ELSE IF text[i] = "\"" THEN i ELSE StringEnd(i + 1)
      RECURSIVE DigitsEnd(_)
      DigitsEnd(i) == IF IsDigit(At(i)) THEN DigitsEnd(i + 1) ELSE i
      ReadValue(i) ==
        IF At(i) = "\""
          THEN LET e == StringEnd(i + 1)
               IN  IF e = 0 THEN Fail
                   ELSE [ok |-> TRUE, next |-> e + 1,
                         val |-> [type |-> "string",
                                  chars |-> SubSeq(text, i + 1, e - 1)]]
          ELSE LET s == IF At(i) = "-" THEN i + 1 ELSE i
                   e == DigitsEnd(s)
                   hasFraction == At(e) = "."
                   f == IF hasFraction THEN DigitsEnd(e + 1) ELSE e
               IN  IF /\ e > s
                      /\ (text[s] = "0" => e = s + 1)
                      /\ (hasFraction => f > e + 1)
                     THEN [ok |-> TRUE, next |-> f,
                           val |-> [type |-> "number",
                                    int |-> (IF s > i THEN -1 ELSE 1)
                                              * DigitsValue(SubSeq(text, s, e - 1)),
                                    integral |-> \A j \in (e + 1)..(f - 1) :
                                                    text[j] = "0"]]
                     ELSE Fail
      RECURSIVE Members(_, _)
      Members(i, acc) ==
        LET k == ReadValue(Skip(i))
        IN  IF ~k.ok THEN Fail
            ELSE IF k.val.type # "string" \/ At(Skip(k.next)) # ":" THEN Fail
            ELSE LET v == ReadValue(Skip(Skip(k.next) + 1))
                 IN  IF ~v.ok THEN Fail
                     ELSE LET d == Skip(v.next)
                              more == Append(acc, <<k.val.chars, v.val>>)
                          IN  IF At(d) = "," THEN Members(d + 1, more)
                              ELSE IF At(d) = "}"
                                THEN [ok |-> TRUE, next |-> d + 1,
                                      val |-> [type |-> "object", members |-> more]]
                              ELSE Fail
      start == Skip(1)
      parsed ==
        IF At(start) = "{"
          THEN IF At(Skip(start + 1)) = "}"
                 THEN [ok |-> TRUE, next |-> Skip(start + 1) + 1,
                       val |-> [type |-> "object", members |-> <<>>]]
                 ELSE Members(start + 1, <<>>)
          ELSE ReadValue(start)
  IN  IF parsed.ok /\ Skip(parsed.next) = n + 1 THEN parsed.val ELSE NoJson

\* tgIdSchema: /^[1-9]\d{0,19}$/u
tgIdSchema(text) ==
  /\ Len(text) \in 1..20
  /\ \A i \in 1..Len(text) : IsDigit(text[i])
  /\ text[1] # "0"

\* The value of a member of a parsed object, the last of that name; a
\* missing member is undefined.
Member(json, key) ==
  LET at == {i \in 1..Len(json.members) : json.members[i][1] = key}
  IN  IF at = {} THEN [type |-> "undefined"]
      ELSE json.members[CHOOSE i \in at : \A j \in at : j <= i][2]

\* invoicePayloadSchema.safeParse: the parsed value (unknown members
\* stripped) or null.
invoicePayloadSchema(json) ==
  IF json = NoJson \/ json.type # "object" THEN NoJson
  ELSE
    LET action == Member(json, Word.action)
        months == Member(json, Word.months)
        tgId == Member(json, Word.tgId)
        recipientTgId == Member(json, Word.recipientTgId)
        \* subscriptionPlanMonthsSchema: z.number().int().positive()
        monthsOk == months.type = "number" /\ months.integral /\ months.int > 0
        IsTgId(v) == v.type = "string" /\ tgIdSchema(v.chars)
    IN  IF action.type # "string" \/ ~monthsOk \/ ~IsTgId(tgId) THEN NoJson
        ELSE IF action.chars = Word.subscription
          THEN [action |-> "subscription", months |-> months.int,
                tgId |-> tgId.chars]
        ELSE IF action.chars = Word.gift /\ IsTgId(recipientTgId)
          THEN [action |-> "gift", months |-> months.int, tgId |-> tgId.chars,
                recipientTgId |-> recipientTgId.chars]
        ELSE NoJson

\* A variant that writes the payer as a JSON number.
buildPayloadWithNumericId(tgId, months) ==
  JsonObject(<< <<Word.action, Quoted(Word.subscription)>>,
                <<Word.months, NumberText(months)>>,
                <<Word.tgId, NumberText(tgId)>> >>)

\* JSON.stringify({action: "subscription", months, tgId: String(tgId)})
buildSubscriptionInvoicePayload(tgId, months) ==
  JsonObject(<< <<Word.action, Quoted(Word.subscription)>>,
                <<Word.months, NumberText(months)>>,
                <<Word.tgId, Quoted(NumberText(tgId))>> >>)

\* JSON.stringify({action: "gift", months, tgId: String(tgId), recipientTgId})
buildGiftInvoicePayload(tgId, recipientTgId, months) ==
  JsonObject(<< <<Word.action, Quoted(Word.gift)>>,
                <<Word.months, NumberText(months)>>,
                <<Word.tgId, Quoted(NumberText(tgId))>>,
                <<Word.recipientTgId, Quoted(recipientTgId)>> >>)

\* parseJsonSafe, then invoicePayloadSchema.safeParse
parseSubscriptionInvoicePayload(payload) ==
  invoicePayloadSchema(parseJsonSafe(payload))

\* Payer ids, month counts and gift recipients handed to the builders.
PayerIds == {1, 2, 10, 907, 2147483647}

MonthCounts == {1, 3, 12, 100}

Recipients == {NumberText(2), NumberText(1234567890)}

\* Payloads no builder produces: one member of a built payload replaced (a
\* wrong action; months that are zero, negative, fractional or a string; an
\* id that is zero, has a leading zero, a letter, a sign, no digit or 21
\* digits, or is a number), a gift without its recipient or with recipient
\* 0, and built payloads damaged into invalid JSON.
ForgedPayloads ==
  LET good == << <<Word.action, Quoted(Word.subscription)>>,
                 <<Word.months, NumberText(3)>>,
                 <<Word.tgId, Quoted(NumberText(907))>> >>
      badActions == {Quoted(<<"s", "u", "b">>), Quoted(<<>>), NumberText(1),
                     Quoted(<<"g", "i", "f", "t", "s">>)}
      badMonths == {NumberText(0), NumberText(-1), <<"1", ".", "5">>,
                    Quoted(NumberText(3)), <<"-", "0", ".", "5">>}
      badIds == {Quoted(<<"0">>), Quoted(<<"0", "1", "2">>),
                 Quoted(<<"1", "2", "a">>), Quoted(NumberText(-1)), Quoted(<<>>),
                 Quoted([i \in 1..21 |-> "9"]), NumberText(907),
                 Quoted(<<" ", "7">>)}
      built == {buildSubscriptionInvoicePayload(id, 3) : id \in PayerIds}
  IN  {JsonObject([good EXCEPT ![1][2] = a]) : a \in badActions}
        \cup {JsonObject([good EXCEPT ![2][2] = m]) : m \in badMonths}
        \cup {JsonObject([good EXCEPT ![3][2] = t]) : t \in badIds}
        \cup {JsonObject(Tail(good)), JsonObject(SubSeq(good, 1, 2)),
              JsonObject(<<good[1], good[3]>>),
              JsonObject([good EXCEPT ![1][2] = Quoted(Word.gift)]),
              buildGiftInvoicePayload(907, <<"0">>, 3),
              <<>>, <<"{">>, <<"n", "u", "l", "l">>, Quoted(Word.subscription),
              NumberText(3)}
        \cup {SubSeq(t, 1, Len(t) - 1) : t \in built}
        \cup {Tail(t) : t \in built}
        \cup {t \o <<"}">> : t \in built}
        \cup {SubSeq(t, 1, Len(t) - 1) \o <<",", "}">> : t \in built}
        \cup {[t EXCEPT ![2] = "'"] : t \in built}

\* The parsers keep no state: a handler takes an input and applies the
\* function to it.
ParserInit ==
  /\ users = EmptyStore
  /\ today = StartDay
  /\ proc = [p \in Procs |-> [pc |-> "idle"]]
  /\ started = 0

BuildPayload(p) ==
  /\ proc[p].pc = "idle"
  /\ \E tgId \in PayerIds, months \in MonthCounts :
       proc' = [proc EXCEPT ![p] =
         [ pc |-> "built", fn |-> "subscription", tgId |-> tgId,
           months |-> months, recipientTgId |-> <<>>,
           payload |-> buildSubscriptionInvoicePayload(tgId, months) ]]
  /\ UNCHANGED <<users, today, started>>

BuildGiftPayload(p) ==
  /\ proc[p].pc = "idle"
  /\ \E tgId \in PayerIds, months \in MonthCounts, recipientTgId \in Recipients :
       proc' = [proc EXCEPT ![p] =
         [ pc |-> "built", fn |-> "gift", tgId |-> tgId,
           months |-> months, recipientTgId |-> recipientTgId,
           payload |-> buildGiftInvoicePayload(tgId, recipientTgId, months) ]]
  /\ UNCHANGED <<users, today, started>>

ForgePayload(p) ==
  /\ proc[p].pc = "idle"
  /\ \E payload \in ForgedPayloads :
       proc' = [proc EXCEPT ![p] =
         [ pc |-> "built", fn |-> "forged", tgId |-> 0, months |-> 0,
           recipientTgId |-> <<>>, payload |-> payload ]]
  /\ UNCHANGED <<users, today, started>>

ParsePayload(p) ==
  /\ proc[p].pc = "built"
  /\ proc' = [proc EXCEPT ![p] =
       [ pc |-> "parsed", fn |-> proc[p].fn, tgId |-> proc[p].tgId,
         months |-> proc[p].months, recipientTgId |-> proc[p].recipientTgId,
         payload |-> proc[p].payload,
         out |-> parseSubscriptionInvoicePayload(proc[p].payload) ]]
  /\ UNCHANGED <<users, today, started>>

PayloadNext ==
  \/ BuildPayload("h1")
  \/ BuildGiftPayload("h1")
  \/ ForgePayload("h1")
  \/ ParsePayload("h1")

PayloadSpec == ParserInit /\ [][PayloadNext]_vars

\* ------------------------------------------------------- command parser

Letters ==
  <<"a", "b", "c", "d", "e", "f", "g", "h", "i", "j", "k", "l", "m",
    "n", "o", "p", "q", "r", "s", "t", "u", "v", "w", "x", "y", "z">>

Capitals ==
  <<"A", "B", "C", "D", "E", "F", "G", "H", "I", "J", "K", "L", "M",
    "N", "O", "P", "Q", "R", "S", "T", "U", "V", "W", "X", "Y", "Z">>

\* String.prototype.toLowerCase, of a character and of a text.
LowerChar(c) ==
  IF \E i \in 1..Len(Capitals) : Capitals[i] = c
    THEN Letters[CHOOSE i \in 1..Len(Capitals) : Capitals[i] = c]
    ELSE c

toLowerCase(text) == [i \in 1..Len(text) |-> LowerChar(text[i])]

\* [a-z] under the flag i, \w and \s of a regular expression.
IsLetter(c) == \E i \in 1..Len(Letters) : Letters[i] = LowerChar(c)

IsWordChar(c) == IsLetter(c) \/ IsDigit(c) \/ c = "_"

IsSpace(c) == c \in {" ", "\n", "\t"}

\* text.trim()
RECURSIVE trim(_)
trim(text) ==
  IF text = <<>> THEN text
  ELSE IF IsSpace(text[1]) THEN trim(Tail(text))
  ELSE IF IsSpace(text[Len(text)]) THEN trim(SubSeq(text, 1, Len(text) - 1))
  ELSE text

\* text.split(/\s+/u).filter((token) => token.length > 0): the maximal runs
\* of characters that are not blank, in order.
SplitTokens(text) ==
  LET n == Len(text)
      IsStart(i) == ~IsSpace(text[i]) /\ (i = 1 \/ IsSpace(text[i - 1]))
      IsEnd(i) == ~IsSpace(text[i]) /\ (i = n \/ IsSpace(text[i + 1]))
      starts == {i \in 1..n : IsStart(i)}
      Start(k) == CHOOSE i \in starts : Cardinality({j \in starts : j < i}) = k - 1
      End(i) == CHOOSE j \in i..n : IsEnd(j) /\ \A m \in i..(j - 1) : ~IsEnd(m)
  IN  [k \in 1..Cardinality(starts) |-> SubSeq(text, Start(k), End(Start(k)))]

\* The keys and the link of suspiciousCommandPattern.
Keywords ==
  { <<"i", "d">>, <<"u", "s", "e", "r", "_", "i", "d">>,
    <<"c", "h", "a", "t", "_", "i", "d">>, <<"a", "d", "m", "i", "n", "_", "i", "d">>,
    <<"t", "a", "r", "g", "e", "t", "_", "i", "d">>, <<"u", "i", "d">> }

UserLink == <<"t", "g", ":", "/", "/", "u", "s", "e", "r", "?", "i", "d", "=">>

\* suspiciousCommandPattern.test(text):
\* /\b(?:id|user_id|chat_id|admin_id|target_id|uid)\s*[:=]\s*\d+\b
\*  |tg:\/\/user\?id=|\b\d{8,}\b/iu
suspiciousCommandPattern(text) ==
  LET n == Len(text)
      lower == toLowerCase(text)
      At(i) == IF 1 <= i /\ i <= n THEN lower[i] ELSE "EOF"
      \* \b between the characters i - 1 and i
      Boundary(i) == IsWordChar(At(i - 1)) # IsWordChar(At(i))
      StartsAt(i, word) ==
        i + Len(word) - 1 <= n /\ SubSeq(lower, i, i + Len(word) - 1) = word
      RECURSIVE SpacesEnd(_)
      SpacesEnd(i) == IF IsSpace(At(i)) THEN SpacesEnd(i + 1) ELSE i
      RECURSIVE DigitsEnd(_)
      DigitsEnd(i) == IF IsDigit(At(i)) THEN DigitsEnd(i + 1) ELSE i
      KeyedId(i, word) ==
        /\ Boundary(i)
        /\ StartsAt(i, word)
        /\ LET sign == SpacesEnd(i + Len(word))
               digits == SpacesEnd(sign + 1)
           IN  /\ At(sign) \in {":", "="}
               /\ DigitsEnd(digits) > digits
               /\ Boundary(DigitsEnd(digits))
      DigitRun(i) ==
        /\ Boundary(i)
        /\ DigitsEnd(i) >= i + 8
        /\ Boundary(DigitsEnd(i))
  IN  \E i \in 1..n :
        \/ \E word \in Keywords : KeyedId(i, word)
        \/ StartsAt(i, UserLink)
        \/ DigitRun(i)

\* An undefined or null text (text === undefined, command: null, argument:
\* null): a sequence that is no sequence of characters.
NoText == <<"undefined">>

\* A variant that lets any argument through.
isAnyArgument(argument) == TRUE

\* /^ref_[1-9]\d{0,19}$/u.test(argument)
isReferralArgument(argument) ==
  /\ Len(argument) \in 5..24
  /\ SubSeq(argument, 1, 4) = <<"r", "e", "f", "_">>
  /\ tgIdSchema(SubSeq(argument, 5, Len(argument)))

\* getTelegramCommand(text, botUsername)
getTelegramCommand(text, botUsername) ==
  LET refused(isSuspicious, reason) ==
        [ command |-> NoText, argument |-> NoText,
          isSuspicious |-> isSuspicious, reason |-> reason ]
      normalizedText == trim(text)
      tokens == SplitTokens(normalizedText)
      firstToken == IF tokens = <<>> THEN <<>> ELSE tokens[1]
      \* /^\/([a-z_]+)(?:@([a-z0-9_]{3,}))?$/iu: the name ends at the first
      \* character that is neither a letter nor "_"
      RECURSIVE NameEnd(_)
      NameEnd(i) ==
        IF i <= Len(firstToken) /\ (IsLetter(firstToken[i]) \/ firstToken[i] = "_")
          THEN NameEnd(i + 1) ELSE i
      nameEnd == NameEnd(2)
      name == SubSeq(firstToken, 2, nameEnd - 1)
      mention == SubSeq(firstToken, nameEnd + 1, Len(firstToken))
      commandMatch ==
        /\ firstToken # <<>>
        /\ firstToken[1] = "/"
        /\ name # <<>>
        /\ \/ nameEnd = Len(firstToken) + 1
           \/ /\ firstToken[nameEnd] = "@"
              /\ Len(mention) >= 3
              /\ \A i \in 1..Len(mention) : IsWordChar(mention[i])
      botMention == toLowerCase(mention)
      expectedBotUsername ==
        IF botUsername = NoText THEN <<>>
        ELSE toLowerCase(IF botUsername # <<>> /\ botUsername[1] = "@"
                           THEN Tail(botUsername) ELSE botUsername)
      normalizedCommand == <<"/">> \o toLowerCase(name)
      argument == IF Len(tokens) = 2 THEN tokens[2] ELSE NoText
  IN  IF text = NoText THEN refused(FALSE, "none")
      ELSE IF normalizedText = <<>> \/ normalizedText[1] # "/"
        THEN refused(FALSE, "none")
      ELSE IF Len(normalizedText) > 128
        THEN refused(TRUE, "Potential ID injection payload detected.")
      ELSE IF ~commandMatch
        THEN refused(TRUE, "Malformed Telegram command.")
      ELSE IF Len(tokens) > 2
        THEN refused(TRUE, "Too many command arguments.")
      ELSE IF botMention # <<>> /\ expectedBotUsername # <<>>
                /\ botMention # expectedBotUsername
        THEN refused(FALSE, "Command is addressed to a different bot.")
      ELSE IF argument # NoText /\ normalizedCommand # <<"/", "s", "t", "a", "r", "t">>
        THEN refused(TRUE, "Command arguments are blocked for security.")
      ELSE IF argument # NoText /\ ~isReferralArgument(argument)
        THEN refused(TRUE, "Unsupported /start payload.")
      ELSE IF argument = NoText /\ suspiciousCommandPattern(normalizedText)
        THEN refused(TRUE, "Potential ID injection payload detected.")
      ELSE [ command |-> normalizedCommand, argument |-> argument,
             isSuspicious |-> FALSE, reason |-> "none" ]

\* First tokens and second tokens of the texts handed to the parser.
FirstTokens ==
  { <<"/", "s", "t", "a", "r", "t">>, <<"/", "S", "t", "a", "r", "t">>,
    <<"/", "m", "e", "n", "u">>, <<"/", "c", "l", "e", "a", "r">>,
    <<"/", "s", "t", "a", "r", "t", "@", "m", "y", "b", "o", "t">>,
    <<"/", "s", "t", "a", "r", "t", "@", "o", "t", "h", "e", "r">>,
    <<"/", "s", "t", "a", "r", "t", "@", "1", "2", "3", "4", "5", "6", "7", "8">>,
    <<"/", "m", "e", "n", "u", "@", "a", "b">>,
    <<"/", "s", "t", "4", "r", "t">>, <<"s", "t", "a", "r", "t">>, <<"/">> }

SecondTokens ==
  { <<"r", "e", "f", "_", "1", "2", "3", "4", "5">>,
    <<"r", "e", "f", "_", "0">>,
    <<"r", "e", "f", "_">> \o [i \in 1..20 |-> "9"],
    <<"r", "e", "f", "_">> \o [i \in 1..21 |-> "9"],
    <<"r", "e", "f", "_", "1", "2", "3", "4", "5", "x">>,
    <<"i", "d", "=", "9", "9", "9", "9", "9", "9", "9", "9", "9">>,
    <<"u", "s", "e", "r", "_", "i", "d", ":", "5">>,
    UserLink \o <<"5">>,
    <<"1", "2", "3", "4", "5", "6", "7", "8">>,
    <<"h", "e", "l", "l", "o">> }

\* The texts: one token; two tokens; two tokens with blanks around them;
\* three tokens; texts that are no command; a text of 131 characters; and no
\* text at all.
CommandTexts ==
  FirstTokens
    \cup {first \o <<" ">> \o second : first \in FirstTokens, second \in SecondTokens}
    \cup {<<" ">> \o first \o <<" ", "\n">> \o second \o <<" ">> :
            first \in FirstTokens, second \in SecondTokens}
    \cup {<<"/", "s", "t", "a", "r", "t", " ">> \o second \o <<" ">> \o third :
            second \in SecondTokens, third \in SecondTokens}
    \cup SecondTokens
    \cup {<<"/", "s", "t", "a", "r", "t", " ">> \o [i \in 1..124 |-> "a"],
          <<"/", "s", "t", "a", "r", "t", " ">> \o [i \in 1..121 |-> "a"], NoText, <<>>}

BotUsernames ==
  {NoText, <<"m", "y", "b", "o", "t">>, <<"@", "M", "y", "B", "o", "t">>}

\* A text arrives and is parsed.
ReceiveText(p) ==
  /\ proc[p].pc = "idle"
  /\ \E text \in CommandTexts, botUsername \in BotUsernames :
       proc' = [proc EXCEPT ![p] =
         [pc |-> "text", text |-> text, botUsername |-> botUsername]]
  /\ UNCHANGED <<users, today, started>>

ParseCommand(p) ==
  /\ proc[p].pc = "text"
  /\ proc' = [proc EXCEPT ![p] =
       [ pc |-> "parsed", text |-> proc[p].text,
         botUsername |-> proc[p].botUsername,
         out |-> getTelegramCommand(proc[p].text, proc[p].botUsername) ]]
  /\ UNCHANGED <<users, today, started>>

CommandNext == ReceiveText("h1") \/ ParseCommand("h1")

CommandSpec == ParserInit /\ [][CommandNext]_vars

\* ------------------------------------------------------- callback data

\* The prefixes of callback data, as texts.
Prefix ==
  [ menu |-> <<"m", "e", "n", "u", ":">>,
    buymethod |-> <<"b", "u", "y", ":", "m", "e", "t", "h", "o", "d", ":">>,
    buyplan |-> <<"b", "u", "y", ":", "p", "l", "a", "n", ":">>,
    faq |-> <<"f", "a", "q", ":">>,
    referals |-> <<"r", "e", "f", "e", "r", "a", "l", "s", ":">>,
    balanceplan |-> <<"r", "e", "f", "e", "r", "a", "l", "s", ":", "b", "a",
                      "l", "a", "n", "c", "e", "_", "p", "l", "a", "n", ":">>,
    giftview |-> <<"g", "i", "f", "t", ":", "v", "i", "e", "w", ":">>,
    giftactivate |-> <<"g", "i", "f", "t", ":", "a", "c", "t", "i", "v",
                       "a", "t", "e", ":">>,
    giftmethod |-> <<"g", "i", "f", "t", ":", "m", "e", "t", "h", "o", "d",
                     ":">>,
    giftplan |-> <<"g", "i", "f", "t", ":", "p", "l", "a", "n", ":">>,
    country |-> <<"c", "o", "u", "n", "t", "r", "i", "e", "s", ":", "c",
                  "o", "u", "n", "t", "r", "y", ":">>,
    vps |-> <<"c", "o", "u", "n", "t", "r", "i", "e", "s", ":", "v", "p",
              "s", ":">>,
    howto |-> <<"h", "o", "w", "t", "o", ":">> ]

\* Words and parameters of callback data, as texts.
Text ==
  [ buyopen |-> <<"b", "u", "y", ":", "o", "p", "e", "n">>,
    prolong |-> <<"p", "r", "o", "l", "o", "n", "g">>,
    giftmy |-> <<"g", "i", "f", "t", ":", "m", "y">>,
    giftgive |-> <<"g", "i", "f", "t", ":", "g", "i", "v", "e">>,
    giftpromo |-> <<"g", "i", "f", "t", ":", "p", "r", "o", "m", "o">>,
    three |-> <<"3">>,
    threex |-> <<"3", "x">>,
    zero |-> <<"0">>,
    id |-> <<"9", "0", "7">>,
    zeroid |-> <<"0", "9", "0", "7">>,
    idone |-> <<"9", "0", "7", ":", "1">>,
    faq |-> <<"f", "a", "q">>,
    gifts |-> <<"g", "i", "f", "t", "s">>,
    email |-> <<"e", "m", "a", "i", "l">>,
    ios |-> <<"i", "o", "s">>,
    starsid |-> <<"t", "g", "_", "s", "t", "a", "r", "s", ":", "9", "0", "7">>,
    tgstars |-> <<"t", "g", "_", "s", "t", "a", "r", "s">>,
    bogus |-> <<"b", "o", "g", "u", "s">>,
    one |-> <<":", "1">> ]

\* data.startsWith(prefix) and data.slice(prefix.length)
startsWith(data, prefix) ==
  Len(data) >= Len(prefix) /\ SubSeq(data, 1, Len(prefix)) = prefix

slice(data, prefix) == SubSeq(data, Len(prefix) + 1, Len(data))

\* data.split(":")
split(data) ==
  LET n == Len(data)
      colons == {i \in 1..n : data[i] = ":"}
      \* the k-th colon; the 0-th is before the text, the last after it
      Colon(k) ==
        IF k = 0 THEN 0
        ELSE IF k > Cardinality(colons) THEN n + 1
        ELSE CHOOSE i \in colons : Cardinality({j \in colons : j < i}) = k - 1
  IN  [k \in 1..(Cardinality(colons) + 1) |->
         SubSeq(data, Colon(k - 1) + 1, Colon(k) - 1)]

\* The number NaN; any other number n is [nan |-> FALSE, value |-> n].
NaN == [nan |-> TRUE]

\* Number.parseInt(text, 10): blanks are skipped, a sign is read, then the
\* longest run of digits; what follows the digits is ignored; NaN without a
\* digit.
parseInt(text) ==
  LET n == Len(text)
      At(i) == IF i <= n THEN text[i] ELSE "EOF"
      RECURSIVE SpacesEnd(_)
      SpacesEnd(i) == IF IsSpace(At(i)) THEN SpacesEnd(i + 1) ELSE i
      RECURSIVE DigitsEnd(_)
      DigitsEnd(i) == IF IsDigit(At(i)) THEN DigitsEnd(i + 1) ELSE i
      sign == SpacesEnd(1)
      first == IF At(sign) \in {"+", "-"} THEN sign + 1 ELSE sign
      last == DigitsEnd(first) - 1
  IN  IF last < first THEN NaN
      ELSE [ nan |-> FALSE,
             value |-> (IF At(sign) = "-" THEN -1 ELSE 1)
                         * DigitsValue(SubSeq(text, first, last)) ]

\* subscriptionPlanMonthsSchema: z.number().int().positive();
\* giftIndexSchema: z.number().int().nonnegative()
subscriptionPlanMonthsSchema(number) == ~number.nan /\ number.value > 0

giftIndexSchema(number) == ~number.nan /\ number.value >= 0

\* The enums of the callback data.
telegramMenuKeySchema ==
  { <<"s", "u", "b", "s", "c", "r", "i", "p", "t", "i", "o", "n", "_", "s", "t",
      "a", "t", "u", "s">>,
    <<"h", "o", "w", "_", "t", "o", "_", "u", "s", "e">>, <<"f", "a", "q">>,
    <<"r", "e", "f", "e", "r", "a", "l", "s">>, <<"g", "i", "f", "t", "s">>,
    <<"s", "e", "t", "t", "i", "n", "g", "s">>,
    <<"c", "o", "u", "n", "t", "r", "i", "e", "s">> }

purchaseMethodSchema == { <<"t", "g", "_", "s", "t", "a", "r", "s">>,
    <<"t", "b", "d", "_", "1">>, <<"t", "b", "d", "_", "2">> }

faqActionSchema == { <<"e", "m", "a", "i", "l">>, <<"r", "u", "l", "e", "s">> }

howToPlatformSchema ==
  { <<"i", "o", "s">>, <<"a", "n", "d", "r", "o", "i", "d">>,
    <<"m", "a", "c", "o", "s">>, <<"w", "i", "n", "d", "o", "w", "s">>,
    <<"a", "n", "d", "r", "o", "i", "d", "_", "t", "v">> }

\* decodeBase64Url(value): Buffer.from(value, "base64url").toString("utf8"),
\* for a value of base64url characters that encodes blanks, digits and
\* letters: each character is 6 bits, each full 8 bits a character.
decodeBase64Url(value) ==
  LET Index(row, c) == CHOOSE i \in 1..Len(row) : row[i] = c
      Sextet(c) ==
        IF \E i \in 1..26 : Capitals[i] = c THEN Index(Capitals, c) - 1
        ELSE IF \E i \in 1..26 : Letters[i] = c THEN Index(Letters, c) + 25
        ELSE IF IsDigit(c) THEN DigitValue(c) + 52
        ELSE IF c \in {"-", "+"} THEN 62
        ELSE 63
      Bit(k) == (Sextet(value[(k \div 6) + 1]) \div (2 ^ (5 - (k % 6)))) % 2
      Byte(b) ==
        Bit(8 * b) * 128 + Bit(8 * b + 1) * 64 + Bit(8 * b + 2) * 32
          + Bit(8 * b + 3) * 16 + Bit(8 * b + 4) * 8 + Bit(8 * b + 5) * 4
          + Bit(8 * b + 6) * 2 + Bit(8 * b + 7)
      Char(code) ==
        IF code \in 65..90 THEN Capitals[code - 64]
        ELSE IF code \in 97..122 THEN Letters[code - 96]
        ELSE IF code \in 48..57 THEN DigitChars[code - 47]
        ELSE IF code = 32 THEN " "
        ELSE "?"
  IN  [b \in 1..((Len(value) * 6) \div 8) |-> Char(Byte(b - 1))]

\* z.uuid(): 8-4-4-4-12 hexadecimal digits, the version digit 1 to 8 and
\* the variant digit 8, 9, a or b; or the nil or the max UUID.
IsUuid(text) ==
  LET lower == toLowerCase(text)
      IsHex(c) == IsDigit(c) \/ c \in {"a", "b", "c", "d", "e", "f"}
  IN  /\ Len(text) = 36
      /\ \A i \in 1..36 :
           IF i \in {9, 14, 19, 24} THEN lower[i] = "-" ELSE IsHex(lower[i])
      /\ \/ lower[15] \in {"1", "2", "3", "4", "5", "6", "7", "8"}
              /\ lower[20] \in {"8", "9", "a", "b"}
         \/ \A i \in (1..36) \ {9, 14, 19, 24} : lower[i] = "0"
         \/ \A i \in (1..36) \ {9, 14, 19, 24} : lower[i] = "f"

\* The result null of a decoder; data === undefined is NoText.
NoAction == [absent |-> TRUE]

\* getMenuKeyFromCallbackData: the menu key, or NoText for null.
getMenuKeyFromCallbackData(data) ==
  IF data = NoText \/ ~startsWith(data, Prefix.menu) THEN NoText
  ELSE IF slice(data, Prefix.menu) \in telegramMenuKeySchema
    THEN slice(data, Prefix.menu)
  ELSE NoText

getPurchaseActionFromCallbackData(data) ==
  IF data = NoText THEN NoAction
  ELSE IF data = Text.buyopen THEN [kind |-> "open"]
  ELSE IF startsWith(data, Prefix.buymethod)
    THEN IF slice(data, Prefix.buymethod) \in purchaseMethodSchema
           THEN [kind |-> "method", method |-> slice(data, Prefix.buymethod)]
           ELSE NoAction
  ELSE IF startsWith(data, Prefix.buyplan)
    THEN LET monthsRaw == parseInt(slice(data, Prefix.buyplan))
         IN  IF subscriptionPlanMonthsSchema(monthsRaw)
               THEN [kind |-> "plan", months |-> monthsRaw.value]
               ELSE NoAction
  ELSE NoAction

getFaqActionFromCallbackData(data) ==
  IF data = NoText \/ ~startsWith(data, Prefix.faq) THEN NoAction
  ELSE IF slice(data, Prefix.faq) \in faqActionSchema
    THEN [kind |-> slice(data, Prefix.faq)]
  ELSE NoAction

getReferalsActionFromCallbackData(data) ==
  IF data = NoText THEN NoAction
  ELSE IF startsWith(data, Prefix.referals) /\ slice(data, Prefix.referals) = Text.prolong
    THEN [kind |-> "prolong"]
  ELSE IF startsWith(data, Prefix.balanceplan)
    THEN LET monthsRaw == parseInt(slice(data, Prefix.balanceplan))
         IN  IF subscriptionPlanMonthsSchema(monthsRaw)
               THEN [kind |-> "balance_plan", months |-> monthsRaw.value]
               ELSE NoAction
  ELSE NoAction

getGiftsActionFromCallbackData(data) ==
  LET parts == split(data)
      Indexed(kind, prefix) ==
        LET rawGiftIndex == parseInt(slice(data, prefix))
        IN  IF giftIndexSchema(rawGiftIndex)
              THEN [kind |-> kind, giftIndex |-> rawGiftIndex.value]
              ELSE NoAction
  IN  IF data = NoText THEN NoAction
      ELSE IF data = Text.giftmy THEN [kind |-> "my"]
      ELSE IF data = Text.giftgive THEN [kind |-> "give"]
      ELSE IF data = Text.giftpromo THEN [kind |-> "promo"]
      ELSE IF startsWith(data, Prefix.giftview) THEN Indexed("view", Prefix.giftview)
      ELSE IF startsWith(data, Prefix.giftactivate)
        THEN Indexed("activate", Prefix.giftactivate)
      ELSE IF startsWith(data, Prefix.giftmethod)
        THEN IF /\ Len(parts) = 4
                /\ parts[3] \in purchaseMethodSchema
                /\ tgIdSchema(parts[4])
               THEN [kind |-> "method", method |-> parts[3],
                     recipientTgId |-> parts[4]]
               ELSE NoAction
      ELSE IF startsWith(data, Prefix.giftplan)
        THEN IF /\ Len(parts) = 4
                /\ subscriptionPlanMonthsSchema(parseInt(parts[3]))
                /\ tgIdSchema(parts[4])
               THEN [kind |-> "plan", months |-> parseInt(parts[3]).value,
                     recipientTgId |-> parts[4]]
               ELSE NoAction
      ELSE NoAction

getCountriesActionFromCallbackData(data) ==
  IF data = NoText THEN NoAction
  ELSE IF startsWith(data, Prefix.country)
    THEN LET decodedCountry == trim(decodeBase64Url(slice(data, Prefix.country)))
         IN  IF Len(decodedCountry) = 0 \/ Len(decodedCountry) > 64 THEN NoAction
             ELSE [kind |-> "country", country |-> decodedCountry]
  ELSE IF startsWith(data, Prefix.vps)
    THEN IF IsUuid(slice(data, Prefix.vps))
           THEN [kind |-> "vps", internalUuid |-> slice(data, Prefix.vps)]
           ELSE NoAction
  ELSE NoAction

getHowToActionFromCallbackData(data) ==
  IF data = NoText \/ ~startsWith(data, Prefix.howto) THEN NoAction
  ELSE IF slice(data, Prefix.howto) \in howToPlatformSchema
    THEN [platform |-> slice(data, Prefix.howto)]
  ELSE NoAction

\* What the decoders called by handleTelegramMenuWebhook make of callback
\* data, in the order it calls them.
DecodeCallbackData(data) ==
  [ menuKey |-> getMenuKeyFromCallbackData(data),
    purchaseAction |-> getPurchaseActionFromCallbackData(data),
    faqAction |-> getFaqActionFromCallbackData(data),
    referalsAction |-> getReferalsActionFromCallbackData(data),
    countriesAction |-> getCountriesActionFromCallbackData(data),
    howToAction |-> getHowToActionFromCallbackData(data) ]

\* menuKey === null && purchaseAction === null && ... && howToAction === null
AllDecodersNull(decoded) ==
  /\ decoded.menuKey = NoText
  /\ decoded.purchaseAction = NoAction
  /\ decoded.faqAction = NoAction
  /\ decoded.referalsAction = NoAction
  /\ decoded.countriesAction = NoAction
  /\ decoded.howToAction = NoAction

\* Callback data: each prefix with parameters that are well formed, out of
\* range, followed by other characters or by further tokens, or missing;
\* data of an unknown domain; and no data.
NumberParameters ==
  { <<"3">>, <<"1", "2">>, <<"0">>, <<"-", "1">>, <<"3", "a", "b", "c">>,
    <<"3", ":", "9">>, <<" ", "3">>, <<>>, <<"x">>, <<"3", ".", "9">>,
    <<"+", "3">>, <<"0", "0", "7">> }

CallbackData ==
  {prefix \o number :
     prefix \in {Prefix.buyplan, Prefix.balanceplan, Prefix.giftview,
                 Prefix.giftactivate},
     number \in NumberParameters}
    \cup {Prefix.giftplan \o number \o <<":">> \o id :
            number \in {Text.three, Text.threex, Text.zero},
            id \in {Text.id, Text.zeroid, Text.idone}}
    \cup {prefix \o key \o tail :
            prefix \in {Prefix.menu, Prefix.faq, Prefix.howto, Prefix.buymethod,
                        Prefix.referals, Prefix.giftmethod},
            key \in {Text.faq, Text.gifts, Text.email, Text.ios, Text.tgstars,
                     Text.prolong, Text.starsid, Text.bogus, <<>>},
            tail \in {<<>>, Text.one}}
    \cup {Prefix.country \o value : value \in
           { <<"V", "V", "M">>,
             <<"R", "E", "U">>,
             <<"I", "F", "V", "T", "I", "A">>,
             <<"I", "C", "A">>,
             <<>>,
             [i \in 1..84 |-> <<"Q", "U", "F", "B">>[((i - 1) % 4) + 1]]
               \o <<"Q", "Q">>,
             [i \in 1..84 |-> <<"Q", "U", "F", "B">>[((i - 1) % 4) + 1]]
               \o <<"Q", "U", "E">>,
             <<"V", "V", "M", "A">> }}
    \cup {Prefix.vps \o value : value \in
           { <<"1", "2", "3", "e", "4", "5", "6", "7", "-", "e", "8", "9", "b", "-",
               "4", "2", "d", "3", "-", "a", "4", "5", "6", "-", "4", "2", "6", "6",
               "1", "4", "1", "7", "4", "0", "0", "0">>,
             <<"1", "2", "3", "E", "4", "5", "6", "7", "-", "E", "8", "9", "B", "-",
               "4", "2", "D", "3", "-", "A", "4", "5", "6", "-", "4", "2", "6", "6",
               "1", "4", "1", "7", "4", "0", "0", "0">>,
             <<"1", "2", "3", "e", "4", "5", "6", "7", "-", "e", "8", "9", "b", "-",
               "4", "2", "d", "3", "-", "a", "4", "5", "6", "-", "4", "2", "6", "6",
               "1", "4", "1", "7", "4", "0", "0">>,
             <<"1", "2", "3", "e", "4", "5", "6", "7", "-", "e", "8", "9", "b", "-",
               "4", "2", "d", "3", "-", "a", "4", "5", "6", "-", "4", "2", "6", "6",
               "1", "4", "1", "7", "4", "0", "0", "0", "0">>,
             <<"1", "2", "3", "e", "4", "5", "6", "7", "-", "e", "8", "9", "b", "-",
               "0", "2", "d", "3", "-", "a", "4", "5", "6", "-", "4", "2", "6", "6",
               "1", "4", "1", "7", "4", "0", "0", "0">>,
             <<"0", "0", "0", "0", "0", "0", "0", "0", "-", "0", "0", "0", "0", "-",
               "0", "0", "0", "0", "-", "0", "0", "0", "0", "-", "0", "0", "0", "0",
               "0", "0", "0", "0", "0", "0", "0", "0">>,
             <<"n", "o", "t", "-", "a", "-", "u", "u", "i", "d">>,
             <<>> }}
    \cup { <<"b", "u", "y", ":", "o", "p", "e", "n">>,
          <<"b", "u", "y", ":", "o", "p", "e", "n", ":", "1">>,
          <<"b", "u", "y">>,
          <<"g", "i", "f", "t", ":", "m", "y">>,
          <<"g", "i", "f", "t", ":", "g", "i", "v", "e">>,
          <<"g", "i", "f", "t", ":", "p", "r", "o", "m", "o">>,
          <<"g", "i", "f", "t", ":", "m", "y", ":", "1">>,
          <<"g", "i", "f", "t", ":", "u", "n", "k", "n", "o", "w", "n">>,
          <<"f", "o", "o", ":", "b", "a", "r">>,
          <<>>,
          <<"m", "e", "n", "u">>,
          <<"M", "e", "n", "u", ":", "f", "a", "q">>,
          <<"r", "e", "f", "e", "r", "a", "l", "s", ":", "p", "r", "o", "l", "o",
            "n", "g", ":", "b", "a", "l", "a", "n", "c", "e", "_", "p", "l", "a",
            "n", ":", "3">>,
          <<"c", "o", "u", "n", "t", "r", "i", "e", "s", ":", "o", "t", "h", "e", "r">>,
          NoText}

\* Callback data arrives and is decoded by the decoders of the handler and
\* by the decoder of the gift actions.
ReceiveData(p) ==
  /\ proc[p].pc = "idle"
  /\ \E data \in CallbackData :
       proc' = [proc EXCEPT ![p] = [pc |-> "data", data |-> data]]
  /\ UNCHANGED <<users, today, started>>

DecodeData(p) ==
  /\ proc[p].pc = "data"
  /\ proc' = [proc EXCEPT ![p] =
       [ pc |-> "decoded", data |-> proc[p].data,
         decoded |-> DecodeCallbackData(proc[p].data),
         giftsAction |-> getGiftsActionFromCallbackData(proc[p].data) ]]
  /\ UNCHANGED <<users, today, started>>

DecoderNext == ReceiveData("h1") \/ DecodeData("h1")

DecoderSpec == ParserInit /\ [][DecoderNext]_vars

\* ------------------------------------------------------ the secret guard
\* requireTelegramSecret(req, res, next): expectedSecret is
\* process.env.TG_SECRET, header1 is req.header("x-telegram-secret") and
\* header2 is req.header("x-telegram-bot-api-secret-token"); NoText is
\* undefined. The result is the status answered, or the call of next().
requireTelegramSecret(expectedSecret, header1, header2) ==
  LET providedSecret == IF header1 # NoText THEN header1 ELSE header2
  IN  IF expectedSecret = NoText \/ Len(expectedSecret) = 0
        THEN [status |-> "500", next |-> FALSE]
      ELSE IF providedSecret # expectedSecret
        THEN [status |-> "401", next |-> FALSE]
      ELSE [status |-> "none", next |-> TRUE]

\* Values of TG_SECRET and of the two headers: not set, empty, a secret,
\* another secret and the beginning of a secret.
ConfiguredSecrets ==
  {NoText, <<>>, <<"s", "3", "c", "r", "e", "t">>, <<"o", "t", "h", "e", "r">>}

HeaderValues == ConfiguredSecrets \cup { <<"s", "3", "c">> }

\* A request arrives at the route; the guard runs before the handler.
ReceiveGuarded(p) ==
  /\ proc[p].pc = "idle"
  /\ \E expectedSecret \in ConfiguredSecrets, header1, header2 \in HeaderValues :
       proc' = [proc EXCEPT ![p] =
         [ pc |-> "guard", expectedSecret |-> expectedSecret,
           header1 |-> header1, header2 |-> header2 ]]
  /\ UNCHANGED <<users, today, started>>

Guard(p) ==
  /\ proc[p].pc = "guard"
  /\ LET q == proc[p]
         out == requireTelegramSecret(q.expectedSecret, q.header1, q.header2)
     IN  proc' = [proc EXCEPT ![p] =
           [ pc |-> IF out.next THEN "handler" ELSE "answered",
             expectedSecret |-> q.expectedSecret, header1 |-> q.header1,
             header2 |-> q.header2, status |-> out.status ]]
  /\ UNCHANGED <<users, today, started>>

GuardNext == ReceiveGuarded("h1") \/ Guard("h1")

GuardSpec == ParserInit /\ [][GuardNext]_vars

\* ------------------------------------------------------ concurrent gifts
\* Gift calls made concurrently on the table whose users hold gifts: two
\* invocations of activateTelegramGift and addTelegramGift interleave at
\* their awaits (two presses of one button, a press while a gift arrives).
GiftRaceStep(p) ==
  \/ StartActivateGift(p)
  \/ StartAddGift(p)
  \/ GiftGet(p)
  \/ EnsureGet(p)
  \/ EnsureRefresh(p)
  \/ UpdateSubscription(p)
  \/ GiftRemove(p)
  \/ GiftAppend(p)

GiftRaceNext == (\E p \in Procs : GiftRaceStep(p)) \/ Tick

GiftRaceSpec == GiftInit /\ [][GiftRaceNext]_vars

\* The store calls of activateTelegramGift, by the position of the call.
GiftCallPcs == {"gift_get", "ensure_get", "ensure_refresh", "sub_update", "gift_remove"}

\* The store call activateTelegramGift is about to make returns an error
\* and writes nothing: getTelegramUserByTgId, ensureTelegramUser,
\* activateTelegramSubscription or activateTelegramGift throws, and the
\* call returns the error to its caller.
GiftStoreFails(p) ==
  /\ proc[p].kind = "gift_activate"
  /\ proc[p].via = "call"
  /\ proc[p].pc \in GiftCallPcs
  /\ proc' = [proc EXCEPT ![p] = Finish(proc[p], FALSE, "STORE_ERROR")]
  /\ UNCHANGED <<users, today, started>>

\* Gift calls made one after another, any store call of which may fail.
GiftFaultStep(p) ==
  \/ (Quiescent /\ StartActivateGift(p))
  \/ GiftGet(p)
  \/ EnsureGet(p)
  \/ EnsureRefresh(p)
  \/ UpdateSubscription(p)
  \/ GiftRemove(p)
  \/ GiftStoreFails(p)

GiftFaultNext == (\E p \in Procs : GiftFaultStep(p)) \/ Tick

GiftFaultSpec == GiftInit /\ [][GiftFaultNext]_vars

\* ---------------------------------------------------------- /clear sweep
\* clearTelegramChatHistoryBySweep on the tracked ids of one chat
\* (trackedMessageIdsByChat), kept with the handler that runs the sweep.
DefaultSweepLimit == 5000

MaxSweepLimit == 10000

MaxMessageId == 4

Max(a, b) == IF a >= b THEN a ELSE b

Min(a, b) == IF a <= b THEN a ELSE b

\* maxMessagesToSweep when the caller gives none.
NoLimit == [absent |-> TRUE]

\* Math.max(1, Math.min(10000, Math.trunc(params.maxMessagesToSweep ?? 5000)))
\* on whole numbers.
sweepLimit(maxMessagesToSweep) ==
  LET sweepLimitRaw == IF maxMessagesToSweep = NoLimit THEN DefaultSweepLimit
                       ELSE maxMessagesToSweep.value
  IN  Max(1, Min(MaxSweepLimit, sweepLimitRaw))

\* Math.max(1, Math.trunc(params.upToMessageId))
startMessageId(upToMessageId) == Max(1, upToMessageId)

\* Math.max(1, startMessageId - sweepLimit + 1)
endMessageId(start, limit) == Max(1, start - limit + 1)

\* new Set(trackedIds) with every id of the window added.
idsToDeleteSet(trackedIds, start, end) ==
  {trackedIds[i] : i \in 1..Len(trackedIds)} \cup {id \in 1..start : id >= end}

\* Array.from(set).sort((left, right) => right - left)
RECURSIVE SortDescending(_)
SortDescending(ids) ==
  IF ids = {} THEN <<>>
  ELSE LET top == CHOOSE id \in ids : \A other \in ids : other <= id
       IN  <<top>> \o SortDescending(ids \ {top})

\* untrackMessageId: trackedIds.filter((trackedId) => trackedId !== messageId)
untrackMessageId(trackedIds, messageId) ==
  SelectSeq(trackedIds, LAMBDA trackedId : trackedId # messageId)

\* The ids trackMessageId has kept for the chat, in the order of sending.
TrackedLists == {<<>>, <<2>>, <<6, 2>>, <<7>>}

\* maxMessagesToSweep: none, below the range, inside it, above it.
LimitInputs ==
  {NoLimit} \cup {[absent |-> FALSE, value |-> n] : n \in {-2, 0, 1, 2, 3, 10001}}

\* /clear arrives: message ids are the positive numbers Telegram assigns.
ReceiveClear(p) ==
  /\ proc[p].pc = "idle"
  /\ \E trackedIds \in TrackedLists, upToMessageId \in 1..MaxMessageId,
        maxMessagesToSweep \in LimitInputs :
       proc' = [proc EXCEPT ![p] =
         [ pc |-> "sweep", trackedIds |-> trackedIds,
           wasTracked |-> trackedIds, upToMessageId |-> upToMessageId,
           maxMessagesToSweep |-> maxMessagesToSweep ]]
  /\ UNCHANGED <<users, today, started>>

\* The window and the list of ids to delete are computed; an empty list is
\* reported at once.
SweepStart(p) ==
  /\ proc[p].pc = "sweep"
  /\ LET q == proc[p]
         limit == sweepLimit(q.maxMessagesToSweep)
         start == startMessageId(q.upToMessageId)
         end == endMessageId(start, limit)
         idsToDelete == SortDescending(idsToDeleteSet(q.trackedIds, start, end))
         base == [ trackedIds |-> q.trackedIds, wasTracked |-> q.wasTracked,
                   upToMessageId |-> q.upToMessageId,
                   maxMessagesToSweep |-> q.maxMessagesToSweep,
                   sweepLimit |-> limit, attempted |-> <<>>,
                   deletedCount |-> 0, failedCount |-> 0 ]
     IN  proc' = [proc EXCEPT ![p] =
           IF Len(idsToDelete) = 0
             THEN base @@ [ pc |-> "returned", idsToDelete |-> <<>>,
                            ok |-> TRUE, attemptedCount |-> 0 ]
             ELSE base @@ [ pc |-> "delete", idsToDelete |-> idsToDelete,
                            left |-> idsToDelete ]]
  /\ UNCHANGED <<users, today, started>>

\* One turn of the loop: deleteTelegramMessage for the next id. A result
\* with ok true untracks the id; a result with ok false is counted as
\* failed; a rejected fetch throws out of the loop and of the function.
SweepDelete(p) ==
  /\ proc[p].pc = "delete"
  /\ proc[p].left # <<>>
  /\ \E outcome \in TransportOutcomes :
       LET q == proc[p]
           messageId == Head(q.left)
           tried == [q EXCEPT !.attempted = Append(@, messageId),
                              !.left = Tail(@)]
       IN  proc' = [proc EXCEPT ![p] =
             IF outcome = "ok"
               THEN [tried EXCEPT !.deletedCount = @ + 1,
                                  !.trackedIds = untrackMessageId(@, messageId)]
             ELSE IF outcome = "error"
               THEN [tried EXCEPT !.failedCount = @ + 1]
             ELSE [tried EXCEPT !.pc = "thrown"]]
  /\ UNCHANGED <<users, today, started>>

\* The loop is over: the counts are returned.
SweepReturn(p) ==
  /\ proc[p].pc = "delete"
  /\ proc[p].left = <<>>
  /\ LET q == proc[p]
     IN  proc' = [proc EXCEPT ![p] =
           [ pc |-> "returned", trackedIds |-> q.trackedIds,
             wasTracked |-> q.wasTracked, upToMessageId |-> q.upToMessageId,
             maxMessagesToSweep |-> q.maxMessagesToSweep,
             sweepLimit |-> q.sweepLimit, attempted |-> q.attempted,
             deletedCount |-> q.deletedCount, failedCount |-> q.failedCount,
             idsToDelete |-> q.idsToDelete,
             ok |-> (q.failedCount = 0),
             attemptedCount |-> Len(q.idsToDelete) ]]
  /\ UNCHANGED <<users, today, started>>

SweepNext ==
  ReceiveClear("h1") \/ SweepStart("h1") \/ SweepDelete("h1") \/ SweepReturn("h1")

SweepSpec == ParserInit /\ [][SweepNext]_vars

\* Every turn of the loop will be taken and the result returned.
SweepFairSpec == SweepSpec /\ WF_vars(SweepNext)

\* ---------------------------------------------------------------------------
\* Properties
\* ---------------------------------------------------------------------------

\* numberOfPurchase recorded for a payer in a referrer's list (0 without an
\* entry).
PurchaseCount(referrer, payerTgId) ==
  LET i == FindEntryIndex(referrer.refferals_data, payerTgId)
  IN  IF i > 0 THEN referrer.refferals_data[i].numberOfPurchase ELSE 0

\* Positions of a handler inside applyReferralRewardForPurchase and inside
\* ensureTelegramUser.
RewardPcs == {"rw_payer", "rw_referrer", "rw_update"}
EnsurePcs == {"ensure_get", "ensure_nick", "ensure_refresh", "ensure_insert",
              "ensure_reread"}

\* The subscription fields of a row.
SubFields(r) ==
  <<r.subscription_active, r.subscription_status, r.subscription_untill>>

\* The table after exactly one delivery of RedeliveredPayment to ChainStore.
AfterOneDelivery ==
  LET n == RedeliveredPayment
      id == IdString(n.from)
      price == getSubscriptionPriceByMonths(n.payload.months)
      s1 == UpdateNickname(ChainStore, id, n.username)
      payerRow == getTelegramUserByTgId(s1, id)
      s2 == UpdateSubscriptionRow(s1, id, NewUntil(payerRow, StartDay, n.payload.months))
      payer == getTelegramUserByTgId(s2, id)
      referrer == getTelegramUserByTgId(s2, payer.reffered_by.tgId)
      plan == RewardPlan(referrer, payer, n.username, price.usdt)
  IN  UpdateReferrerRow(s2, referrer.tg_id, plan.nextEarnedMoney, plan.nextReferralsData)

\* C1: handling the same valid successful-payment notification again leaves
\* the payer's expiry, the referrer's balance and the referrer's purchase
\* counter at the values they had after the first handling: once every
\* delivery has been answered, the table is the one a single delivery yields.
C1_RedeliveryIdempotent ==
  (Quiescent /\ started >= 1) => users = AfterOneDelivery

\* A step of handler p inside a call of activateTelegramSubscriptionFromBalance
\* (the step that makes the call included), judged against the errors a
\* failed call may report.
BalanceCallStep(p, failures) ==
  LET pr == proc[p]
      id == proc'[p].tgId
      before == getTelegramUserByTgId(users, id)
      after == getTelegramUserByTgId(users', id)
  IN  ( /\ proc'[p].kind = "balance"
        /\ proc'[p] # pr
        /\ pr.pc \notin RewardPcs
        /\ proc'[p].err # "PLAN_NOT_FOUND" )
      => IF pr.pc = "bal_update" /\ proc'[p].err = "none"
           THEN \* success: debit and extension in one step
                /\ after.earned_money = before.earned_money - pr.amountUsd
                /\ after.earned_money >= 0
                /\ after.subscription_active
                /\ after.subscription_status = "live"
                /\ after.subscription_untill = pr.newUntil
                /\ parseDateOnly(after.subscription_untill)
                     > parseDateOnly(before.subscription_untill)
         ELSE IF proc'[p].pc = "idle"
           THEN \* failure: balance and subscription as they were (a record the
                \* call had to create holds no balance), an allowed error
                /\ ~proc'[p].ok
                /\ proc'[p].err \in failures
                /\ before # NoUser
                     => /\ after.earned_money = before.earned_money
                        /\ SubFields(after) = SubFields(before)
                /\ (before = NoUser /\ after # NoUser) => after.earned_money = 0
                /\ proc'[p].err = "INVALID_AMOUNT"
                     <=> getSubscriptionPriceByMonths(proc'[p].months).usdt <= 0
         ELSE \* the call is still inside ensure: no debit, no extension
              before # NoUser
                => /\ after.earned_money = before.earned_money
                   /\ SubFields(after) = SubFields(before)

C3_NoLostDebit ==
  [][\A p \in Procs :
       (proc[p].pc = "bal_update" /\ proc'[p].pc # "bal_update"
          /\ proc'[p].err # "INSUFFICIENT_REFERRAL_BALANCE")
       => getTelegramUserByTgId(users', proc[p].tgId).earned_money
            = getTelegramUserByTgId(users, proc[p].tgId).earned_money
                - proc[p].amountUsd]_vars

\* C4: in every reachable state the balance of every identity is >= 0,
\* whatever ledger operations ran and however their steps interleaved.
C4_BalanceNonNegative ==
  \A r \in users : r.earned_money >= 0

\* C4 witness: a balance earned through a reward has been debited twice and
\* is still positive (400 - 199 - 199 cents on user 2 of ChainStore).
C4_Witness ==
  /\ Quiescent
  /\ started = 2
  /\ \E r \in users :
       /\ r.tg_id = "2"
       /\ r.earned_money > 0
       /\ r.earned_money =
            getTelegramUserByTgId(ChainStore, "2").earned_money
              - 2 * getSubscriptionPriceByMonths(1).usdt
       /\ r.subscription_status = "live"

C6_RewardCountsEveryCall ==
  [][\A p \in Procs :
       (proc[p].pc = "rw_update" /\ proc'[p] # proc[p])
       => LET before == getTelegramUserByTgId(users, proc[p].referrerTgId)
              after == getTelegramUserByTgId(users', proc[p].referrerTgId)
          IN  /\ PurchaseCount(after, proc[p].tgId)
                   = PurchaseCount(before, proc[p].tgId) + 1
              /\ (proc'[p].rewardPercent = FirstPurchasePercent
                    => PurchaseCount(before, proc[p].tgId) = 0)]_vars

\* C7 as stated: a balance-funded prolongation never changes the balance,
\* the referral list or the referral count of any other identity, the
\* payer's referrer included.
C7_BalanceNeverRewards ==
  [][\A p \in Procs :
       (proc[p].kind = "balance" /\ proc[p].pc # "idle" /\ proc'[p] # proc[p])
       => \A r \in users :
            r.tg_id # proc[p].tgId
            => \E r2 \in users' :
                 /\ r2.tg_id = r.tg_id
                 /\ r2.earned_money = r.earned_money
                 /\ r2.refferals_data = r.refferals_data
                 /\ r2.number_of_referals = r.number_of_referals]_vars

\* C7: a balance-funded prolongation applies the referral reward as a stars
\* payment does, and only after its debit went through: the reward is entered
\* by the step whose filter matched the stored balance, its update changes
\* the balance, list and count of the payer's referrer and nothing else, and
\* a prolongation that fails changes no other identity's record.
C7_RewardAfterDebit ==
  [][\A p \in Procs :
       LET pr == proc[p]
           before == getTelegramUserByTgId(users, pr.referrerTgId)
           after == getTelegramUserByTgId(users', pr.referrerTgId)
           payer == getTelegramUserByTgId(users, pr.tgId)
       IN  (pr.kind = "balance" /\ pr.pc # "idle" /\ proc'[p] # pr)
           => /\ (proc'[p].pc \in RewardPcs /\ pr.pc \notin RewardPcs)
                   => /\ pr.pc = "bal_update"
                      /\ payer.earned_money >= pr.amountUsd
                      /\ getTelegramUserByTgId(users', pr.tgId).subscription_untill
                           = pr.newUntil
              /\ IF pr.pc = "rw_update"
                   THEN /\ pr.referrerTgId = payer.reffered_by.tgId
                        /\ pr.referrerTgId # pr.tgId
                        /\ \A r \in users : r.tg_id # pr.referrerTgId => r \in users'
                        /\ [after EXCEPT !.earned_money = before.earned_money,
                                         !.refferals_data = before.refferals_data,
                                         !.number_of_referals = before.number_of_referals]
                             = before
                        /\ proc'[p].applied
                   ELSE \A r \in users : r.tg_id # pr.tgId => r \in users'
              /\ (proc'[p].pc = "idle" /\ ~proc'[p].ok) => users \subseteq users']_vars

\* C7 witness: user 2 of ChainStore prolonged from the balance and its
\* referrer, user 3, holds the first-purchase reward for it.
C7_Witness ==
  /\ \E p \in Procs :
       /\ proc[p].pc = "idle"
       /\ proc[p].kind = "balance"
       /\ proc[p].tgId = "2"
       /\ proc[p].ok
       /\ proc[p].applied
  /\ \E r \in users :
       /\ r.tg_id = "3"
       /\ PurchaseCount(r, "2") >= 1
       /\ r.earned_money > 0

\* C8: ensure on an identity that already has a record returns created=FALSE
\* and leaves the record's subscription fields, balance and referrer link as
\* they were; no step of ensure leaves two records for one identity, and
\* ensure returns with exactly one.
C8_EnsureIdempotent ==
  [][\A p \in Procs :
       LET pr == proc[p]
           before == getTelegramUserByTgId(users, pr.tgId)
           after == getTelegramUserByTgId(users', pr.tgId)
           rows == {r \in users' : r.tg_id = pr.tgId}
       IN  (pr.pc \in EnsurePcs /\ proc'[p] # pr)
           => /\ Cardinality(rows) <= 1
              /\ (proc'[p].pc \notin EnsurePcs /\ proc'[p].err = "none")
                   => Cardinality(rows) = 1
              /\ before # NoUser
                   => /\ after # NoUser
                      /\ after.internal_uuid = before.internal_uuid
                      /\ SubFields(after) = SubFields(before)
                      /\ after.earned_money = before.earned_money
                      /\ after.reffered_by = before.reffered_by
                      /\ proc'[p].pc \notin EnsurePcs => ~proc'[p].created]_vars

\* C8 witness: two /start or /menu messages of one sender, handled one after
\* the other from the empty table: the second found the record of the first.
C8_Witness ==
  /\ Quiescent
  /\ started = 2
  /\ proc["h1"].kind = "command"
  /\ proc["h1"].ok
  /\ ~proc["h1"].created
  /\ Cardinality(users) = 1
  /\ \E r \in users :
       /\ r.tg_id = proc["h1"].tgId
       /\ r.tg_nickname = "nick"
       /\ r.subscription_status = "ending"
       /\ r.gifts = <<>>

\* C9: when two ensure calls race on an identity without a record, there is
\* one record afterwards, neither call fails, and the call whose insert met
\* the unique constraint reads the other's record and returns created=FALSE,
\* so at most one of them returns created=TRUE.
C9_EnsureRace ==
  /\ \A id \in {r.tg_id : r \in users} :
       Cardinality({r \in users : r.tg_id = id}) = 1
  /\ \A p \in Procs :
       /\ proc[p].err \notin {"CREATE_FAILED", "USER_DISAPPEARED"}
       /\ proc[p].raced
            => /\ ~proc[p].created
               /\ getTelegramUserByTgId(users, proc[p].tgId) # NoUser
               /\ (proc[p].pc = "idle" /\ proc[p].kind = "command") => proc[p].ok
  /\ \A p, q \in Procs :
       (p # q /\ proc[p].created /\ proc[q].created) => proc[p].tgId # proc[q].tgId

\* C9 witness: both handlers ran ensure for one identity from the empty
\* table; one created the record, the other lost the insert and re-read it.
C9_Witness ==
  \E p, q \in Procs :
    /\ p # q
    /\ proc[p].pc = "idle" /\ proc[q].pc = "idle"
    /\ proc[p].kind = "command" /\ proc[q].kind = "command"
    /\ proc[p].tgId = proc[q].tgId
    /\ proc[p].raced /\ ~proc[p].created /\ proc[p].ok
    /\ proc[q].created /\ proc[q].ok /\ ~proc[q].raced
    /\ Cardinality({r \in users : r.tg_id = proc[p].tgId}) = 1

\* C10: no record names itself as referrer, the referrer link of a record
\* never changes once the record exists, and a record is created with a link
\* only to an identity that has a record at that time and is not the sender.
C10_ReferredBy ==
  [][/\ \A r \in users' :
          r.reffered_by # NoRef
          => /\ r.reffered_by.tgId # r.tg_id
             /\ (\A x \in users : x.tg_id # r.tg_id)
                  => \E x \in users : x.tg_id = r.reffered_by.tgId
     /\ \A r \in users :
          \E r2 \in users' :
            /\ r2.internal_uuid = r.internal_uuid
            /\ r2.tg_id = r.tg_id
            /\ r2.reffered_by = r.reffered_by]_vars

\* C10 witness: a sender with a username was created by /start ref_<id> and
\* carries the link to a referrer that had registered with a username.
C10_Witness ==
  \E p \in Procs, r \in users :
    /\ proc[p].pc = "idle"
    /\ proc[p].kind = "command"
    /\ proc[p].created
    /\ proc[p].tgId = r.tg_id
    /\ r.reffered_by # NoRef
    /\ r.reffered_by.tgNickname = "nick"
    /\ \E x \in users : x.tg_id = r.reffered_by.tgId /\ x.tg_id # r.tg_id

\* C17: a record is created with phase "ending", active, and expiry = the day
\* ensureTelegramUser read the clock + 3 days; a step that changes the
\* subscription fields of a record that already exists writes phase "live"
\* (never the trial again); and no step of a /start or /menu handler changes
\* the subscription fields of a record that already exists.
C17_TrialOnlyAtCreation ==
  [][/\ \A r2 \in users' :
          (\A r \in users : r.tg_id # r2.tg_id)
          => /\ r2.subscription_status = "ending"
             /\ r2.subscription_active
             /\ \E d \in (today - MaxTicks)..today :
                  r2.subscription_untill = formatDateOnly(addDays(d, TrialDays))
     /\ \A r \in users, r2 \in users' :
          (r2.tg_id = r.tg_id /\ SubFields(r2) # SubFields(r))
          => r2.subscription_status = "live"
     /\ \A p \in Procs :
          (proc[p].kind = "command" /\ proc'[p] # proc[p])
          => \A r \in users :
               \E r2 \in users' :
                 /\ r2.internal_uuid = r.internal_uuid
                 /\ SubFields(r2) = SubFields(r)]_vars

\* C17 witness: a sender created on the first day by /start still holds that
\* day's trial after a later /start or /menu found the record on the next day.
C17_Witness ==
  /\ Quiescent
  /\ started = 2
  /\ today = StartDay + 1
  /\ proc["h1"].kind = "command"
  /\ proc["h1"].ok
  /\ ~proc["h1"].created
  /\ \E r \in users :
       /\ r.tg_id = proc["h1"].tgId
       /\ SubFields(r) = <<TRUE, "ending", formatDateOnly(addDays(StartDay, TrialDays))>>

\* The date `months` calendar months after <<y, m, d>>, a day number past
\* the end of the target month running over into the following month.
RolledMonthsAfter(date, months) ==
  LET m0 == (date[2] - 1) + months
      y == date[1] + (m0 \div 12)
      m == (m0 % 12) + 1
      len == DaysInMonth(y, m)
  IN  IF date[3] <= len THEN <<y, m, date[3]>>
      ELSE IF m = 12 THEN <<y + 1, 1, date[3] - len>>
      ELSE <<y, m + 1, date[3] - len>>

\* The date `months` calendar months after <<y, m, d>>, a day number past
\* the end of the target month clamped to its last day.
ClampedMonthsAfter(date, months) ==
  LET m0 == (date[2] - 1) + months
      y == date[1] + (m0 \div 12)
      m == (m0 % 12) + 1
      len == DaysInMonth(y, m)
  IN  <<y, m, IF date[3] <= len THEN date[3] ELSE len>>

\* The base date of an activation that read the clock on day d.
BaseDate(user, d) ==
  IF user.subscription_untill = NoDate \/ parseDateOnly(user.subscription_untill) <= d
    THEN formatDateOnly(d)
    ELSE user.subscription_untill

\* The update step of a direct activation call by handler p writes active,
\* "live" and the expiry MonthsAfter(base, months), where base is the day d
\* the call read the clock (today, or yesterday when midnight passed before
\* the update) when the stored expiry is absent or not after d, and the
\* stored expiry otherwise.
ActivationWrites(p, MonthsAfter(_, _)) ==
  (proc[p].pc = "sub_update" /\ proc'[p] # proc[p])
  => LET before == getTelegramUserByTgId(users, proc[p].tgId)
         after == getTelegramUserByTgId(users', proc[p].tgId)
     IN  /\ before # NoUser
         /\ after # NoUser
         /\ \E d \in (today - MaxTicks)..today :
              /\ d >= StartDay
              /\ SubFields(after) =
                   <<TRUE, "live", MonthsAfter(BaseDate(before, d), proc[p].months)>>

DisplayedGifts(tgId) == IF tgId = "1" THEN GiftsOfOne ELSE GiftsOfTwo

\* Index giftIndex (0-based), read off the displayed list, no longer names
\* the same gift in the stored list: a removal at or before it has shifted
\* the list.
StaleIndex(user, giftIndex) ==
  /\ giftIndex < Len(DisplayedGifts(user.tg_id))
  /\ \/ giftIndex >= Len(user.gifts)
     \/ user.gifts[giftIndex + 1] # DisplayedGifts(user.tg_id)[giftIndex + 1]

\* C14: an activateGift call whose index was obtained before a removal and
\* no longer names the same gift fails with GIFT_NOT_FOUND at its bounds
\* check, and so never activates another gift.
C14_StaleIndexFails ==
  [][\A p \in Procs :
       LET pr == proc[p]
           user == getTelegramUserByTgId(users, pr.tgId)
       IN  (pr.pc = "gift_get" /\ proc'[p] # pr /\ user # NoUser
              /\ StaleIndex(user, pr.giftIndex))
           => /\ proc'[p].pc = "idle"
              /\ proc'[p].err = "GIFT_NOT_FOUND"]_vars

\* C15: activateGift(identity, i), called when no other call is in flight,
\* fails with GIFT_NOT_FOUND and leaves the table as it is when i is not
\* below the length of the stored gift list; otherwise it goes on, its
\* subscription update extends the expiry by the month count of the gift at
\* position i and leaves the gift list alone, and its last update writes the
\* list without position i, the other gifts in their order, and returns.
C15_ActivateGift ==
  [][\A p \in Procs :
       LET pr == proc[p]
           i == pr.giftIndex
           before == getTelegramUserByTgId(users, pr.tgId)
           after == getTelegramUserByTgId(users', pr.tgId)
       IN  (pr.kind = "gift_activate" /\ proc'[p] # pr /\ before # NoUser)
           => /\ (pr.pc = "gift_get" /\ i >= Len(before.gifts))
                   => /\ proc'[p].pc = "idle"
                      /\ proc'[p].err = "GIFT_NOT_FOUND"
                      /\ users' = users
              /\ (pr.pc = "gift_get" /\ i < Len(before.gifts))
                   => /\ proc'[p].pc # "idle"
                      /\ users' = users
              /\ pr.pc \in EnsurePcs => users' = users
              /\ pr.pc = "sub_update"
                   => /\ i < Len(before.gifts)
                      /\ after.gifts = before.gifts
                      /\ \E d \in (today - MaxTicks)..today :
                           /\ d >= StartDay
                           /\ SubFields(after) =
                                <<TRUE, "live",
                                  RolledMonthsAfter(BaseDate(before, d),
                                     before.gifts[i + 1].timeAmountGifted)>>
              /\ pr.pc = "gift_remove"
                   => /\ after.gifts = SubSeq(before.gifts, 1, i)
                                        \o SubSeq(before.gifts, i + 2, Len(before.gifts))
                      /\ SubFields(after) = SubFields(before)
                      /\ proc'[p].pc = "idle"
                      /\ proc'[p].ok]_vars

\* C15 witness: user 1 activated the gift at position 1 of three (12
\* months): the trial until 2026-02-02 became a subscription until
\* 2027-02-02 and the gifts at positions 0 and 2 remain, in order.
C15_Witness ==
  /\ Quiescent
  /\ started = 1
  /\ proc["h1"].kind = "gift_activate"
  /\ proc["h1"].ok
  /\ \E r \in users :
       /\ r.tg_id = "1"
       /\ r.gifts = <<GiftFrom("2", 1), GiftFrom("2", 3)>>
       /\ SubFields(r) = <<TRUE, "live", <<2027, 2, 2>>>>

\* C11: the handler issues the answer to a pre-checkout query exactly once
\* (one call of answerPreCheckoutQuery per query, none for other updates),
\* and the answer is "accept" if and only if the payload decodes, the
\* currency is XTR, the payload's payer is the sender, the catalog read
\* succeeds and the catalog holds a plan for the duration whose stars price
\* is the charged amount.
C11_PreCheckoutAnswer ==
  /\ [](\A p \in Procs :
          proc[p].answers =
            IF proc[p].branch = "pre_checkout" /\ proc[p].pc = "idle" THEN 1 ELSE 0)
  /\ [][\A p \in Procs :
          LET update == proc[p].upd
          IN  (proc[p].pc = "pre_answer" /\ proc'[p] # proc[p])
              => /\ proc'[p].answers = 1
                 /\ proc'[p].answerOk
                      <=> /\ ~proc[p].priceFailed
                          /\ PaymentIsValid(update.from, update.payload,
                                            update.currency, update.totalAmount)]_vars

\* C11 witness: a pre-checkout query was accepted and acknowledged.
C11_Witness ==
  \E p \in Procs :
    /\ proc[p].pc = "idle"
    /\ proc[p].branch = "pre_checkout"
    /\ proc[p].answers = 1
    /\ proc[p].answerOk
    /\ proc[p].http = "200"
    /\ proc[p].body.preCheckoutValidated = "true"

\* The payment message handler p holds passes the validation: the catalog
\* read succeeded and payload, currency, sender and charged amount agree
\* with the catalog.
ValidAtConfirmation(p) ==
  /\ ~proc[p].priceFailed
  /\ PaymentIsValid(proc[p].upd.from, proc[p].upd.payload,
                    proc[p].upd.currency, proc[p].upd.totalAmount)

\* The ledger half of the re-validation: a step of a payment message's
\* handler changes the table only if the message passes the validation, and
\* the reward is computed from the catalog's usdt price of the paid duration.
PaymentLedgerOnlyIfValid ==
  [][\A p \in Procs :
       (proc[p].branch = "payment" /\ proc[p].pc # "idle" /\ proc'[p] # proc[p])
       => /\ users' # users => ValidAtConfirmation(p)
          /\ proc[p].pc \in RewardPcs
               => proc[p].amountUsd =
                    getSubscriptionPriceByMonths(proc[p].upd.payload.months).usdt]_vars

\* C12: a successful-payment message changes the ledger only if it passes
\* the validation at confirmation time; one that does not pass changes no
\* ledger field and is answered with a response reporting paymentApplied =
\* false; the reward base of one that passes is the validated catalog price.
C12_PaymentRevalidated ==
  [][\A p \in Procs :
       (proc[p].branch = "payment" /\ proc[p].pc # "idle" /\ proc'[p] # proc[p])
       => /\ users' # users => ValidAtConfirmation(p)
          /\ (proc'[p].pc = "idle" /\ ~ValidAtConfirmation(p))
               => /\ proc'[p].http = "200"
                  /\ proc'[p].body.paymentApplied = "false"
          /\ proc[p].pc \in RewardPcs
               => proc[p].amountUsd =
                    getSubscriptionPriceByMonths(proc[p].upd.payload.months).usdt]_vars

\* The activation half of the reward-failure rule: from the failure of the
\* reward to the end of the request the payer's row keeps the activation
\* the request wrote (active, "live", the extended expiry).
PaymentActivationKept ==
  \A p \in Procs :
    (proc[p].branch = "payment" /\ proc[p].rewardFailed)
    => \E r \in users :
         /\ r.tg_id = proc[p].tgId
         /\ r.subscription_active
         /\ r.subscription_status = "live"
         /\ proc[p].pc # "idle" => r.subscription_untill = proc[p].newUntil

\* C13: when the activation of a validated payment has committed and the
\* reward then fails, the request ends with the payer's row still active,
\* "live" and extended, and with a response reporting paymentApplied = true.
C13_RewardFailureKeepsActivation ==
  [][\A p \in Procs :
       (proc[p].branch = "payment" /\ proc[p].rewardFailed
          /\ proc[p].pc # "idle" /\ proc'[p].pc = "idle")
       => /\ \E r \in users' :
               /\ r.tg_id = proc[p].tgId
               /\ SubFields(r) = <<TRUE, "live", proc[p].newUntil>>
          /\ proc'[p].http = "200"
          /\ proc'[p].body.paymentApplied = "true"]_vars

\* C18: every update the webhook handler has received and finished with was
\* answered with exactly one HTTP response, of status 200, whatever store
\* call or chat-transport call failed on the way.
C18_AlwaysOneResponse200 ==
  \A p \in Procs :
    (proc[p].via = "webhook" /\ proc[p].pc = "idle")
    => /\ proc[p].responses = 1
       /\ proc[p].http = "200"

\* C19: no chat-transport call throws: each returns a result, so every
\* update whose handling made such calls ends with the response of its
\* branch, and a payment whose activation was committed is reported applied.
C19_TransportNeverThrows ==
  \A p \in Procs :
    /\ ~proc[p].threw
    /\ (proc[p].via = "webhook" /\ proc[p].pc = "idle" /\ proc[p].err # "STORE_ERROR")
         => /\ proc[p].http = "200"
            /\ (proc[p].branch = "payment" /\ proc[p].isValid)
                 => proc[p].body.paymentApplied = "true"

\* The branches in the order of their priority, and the part of an update
\* each handles.
Priority == <<"pre_checkout", "callback", "payment", "command">>

Matches(update, branch) ==
  CASE branch = "pre_checkout" -> update.pre
    [] branch = "callback" -> update.cb
    [] branch = "payment" -> update.pay
    [] branch = "command" -> update.txt

\* The first branch in priority order whose part the update carries.
FirstMatch(update) ==
  IF \E i \in 1..Len(Priority) : Matches(update, Priority[i])
    THEN Priority[CHOOSE i \in 1..Len(Priority) :
                    /\ Matches(update, Priority[i])
                    /\ \A j \in 1..(i - 1) : ~Matches(update, Priority[j])]
    ELSE "no_message"

\* The positions of a handler inside each branch.
BranchPcs(branch) ==
  CASE branch = "pre_checkout" -> {"pre_price", "pre_answer"}
    [] branch = "callback" -> {"cb_answer", "cb_user", "cb_required", "cb_list"}
    [] branch = "payment" ->
         {"pay_price", "pay_reject", "pay_confirm", "sub_update"}
           \cup EnsurePcs \cup RewardPcs
    [] branch = "command" -> {"resolve_ref", "cmd_send", "cmd_clear"} \cup EnsurePcs
    [] OTHER -> {}

\* C20: a well-formed update is handled by the first branch, in the order
\* pre-checkout query, callback query, successful-payment message, command,
\* whose part it carries; one carrying none is acknowledged at once with
\* processed = false and a reason. Only that branch acts: the handler is
\* only ever at a position of that branch, a pre-checkout answer is issued
\* only by the pre-checkout branch, the response carries only that branch's
\* fields, and the table changes only in the payment branch (a payment) and
\* in the command branch (ensureTelegramUser).
C20_FirstMatchWins ==
  /\ [](\A p \in Procs :
          (proc[p].via = "webhook" /\ proc[p].upd.wellFormed)
          => /\ proc[p].branch = FirstMatch(proc[p].upd)
             /\ proc[p].pc \in BranchPcs(proc[p].branch) \cup {"idle"}
             /\ proc[p].answers > 0 => proc[p].branch = "pre_checkout"
             /\ proc[p].branch = "no_message"
                  => /\ proc[p].pc = "idle"
                     /\ proc[p].http = "200"
                     /\ ~proc[p].body.processed
                     /\ proc[p].body.reason
             /\ proc[p].body # NoBody
                  => /\ proc[p].body.preCheckoutValidated # "absent"
                          => proc[p].branch = "pre_checkout"
                     /\ proc[p].body.callbackHandled # "absent"
                          => proc[p].branch = "callback"
                     /\ proc[p].body.paymentApplied # "absent"
                          => proc[p].branch = "payment"
                     /\ proc[p].body.sent # "absent"
                          => proc[p].branch \in {"callback", "command"})
  /\ [][\A p \in Procs :
          (proc'[p] # proc[p] /\ users' # users)
          => \/ proc[p].branch = "payment" /\ proc[p].kind = "payment"
             \/ /\ proc[p].branch = "command"
                /\ proc[p].kind = "command"
                /\ proc[p].pc \in EnsurePcs]_vars

\* C20 witness: an update carrying a pre-checkout query, a callback query
\* and a message with a valid payment and /start was handled by the
\* pre-checkout branch alone: it answered the query and the table is still
\* empty.
C20_Witness ==
  /\ users = EmptyStore
  /\ \E p \in Procs :
       /\ proc[p].pc = "idle"
       /\ proc[p].via = "webhook"
       /\ proc[p].upd.wellFormed
       /\ proc[p].upd.pre /\ proc[p].upd.cb /\ proc[p].upd.pay /\ proc[p].upd.txt
       /\ proc[p].branch = "pre_checkout"
       /\ proc[p].answers = 1
       /\ proc[p].answerOk
       /\ proc[p].http = "200"
       /\ proc[p].body.preCheckoutValidated = "true"

\* C21: an update handled as a callback query that comes from a private chat
\* and whose sender is not that chat is answered in the step that receives
\* it, with status 200 and callbackHandled = false: the handler is never at
\* a position from which it makes a call, so it issues no callback answer
\* and no other chat-transport call, reads no record, and the table is as it
\* was.
C21_OwnershipMismatch ==
  /\ [](\A p \in Procs :
          (/\ proc[p].via = "webhook"
           /\ proc[p].upd.wellFormed
           /\ proc[p].branch = "callback"
           /\ proc[p].upd.chatType = "private"
           /\ ~proc[p].upd.ownChat)
          => /\ proc[p].pc = "idle"
             /\ proc[p].calls = 0
             /\ ~proc[p].threw
             /\ proc[p].http = "200"
             /\ proc[p].responses = 1
             /\ proc[p].body.processed
             /\ proc[p].body.callbackHandled = "false")
  /\ [][\A p \in Procs :
          (/\ proc'[p] # proc[p]
           /\ proc'[p].via = "webhook"
           /\ proc'[p].upd.wellFormed
           /\ proc'[p].branch = "callback"
           /\ proc'[p].upd.chatType = "private"
           /\ ~proc'[p].upd.ownChat)
          => /\ proc[p].pc = "idle"
             /\ users' = users]_vars

\* C21 witness: a countries callback pressed in another user's private chat
\* by user 1, who has access to the servers, was answered with
\* callbackHandled = false and no call was made.
C21_Witness ==
  /\ \E r \in users : r.tg_id = "1" /\ r.subscription_active
  /\ \E p \in Procs :
       /\ proc[p].via = "webhook"
       /\ proc[p].pc = "idle"
       /\ proc[p].branch = "callback"
       /\ proc[p].tgId = "1"
       /\ proc[p].upd.action = "countries"
       /\ proc[p].upd.chatType = "private"
       /\ ~proc[p].upd.ownChat
       /\ proc[p].calls = 0
       /\ proc[p].http = "200"
       /\ proc[p].body.callbackHandled = "false"

\* The callback answer is the first call of the callback branch: a handler
\* past the answer has issued it, and the table does not change before it.
CallbackAnsweredFirst ==
  /\ [](\A p \in Procs :
          (/\ proc[p].via = "webhook"
           /\ proc[p].branch = "callback"
           /\ proc[p].pc \in {"cb_user", "cb_required", "cb_list"})
          => proc[p].calls >= 1)
  /\ [][\A p \in Procs :
          (proc[p].pc = "cb_answer" /\ proc'[p] # proc[p])
          => (proc[p].calls = 0 /\ proc'[p].calls = 1 /\ users' = users)]_vars

\* C22: a callback that passes the ownership check is answered before any
\* other call of its branch, and whatever becomes of the answer the branch
\* goes on: a callback the handler has a branch for moves on to that
\* branch's work, any other is reported with status 200 and
\* callbackHandled = false.
C22_AnswerNeverBlocks ==
  /\ CallbackAnsweredFirst
  /\ [][\A p \in Procs :
          (proc[p].pc = "cb_answer" /\ proc'[p] # proc[p])
          => IF Dispatched(proc[p].upd.action)
               THEN proc'[p].pc = "cb_user"
               ELSE /\ proc'[p].http = "200"
                    /\ proc'[p].body.callbackHandled = "false"]_vars

\* C23: an update handled as an ordinary message that comes from a
\* non-private chat, or whose sender is not its chat, or whose text is a
\* suspicious command, or whose command is not /start, /menu or /clear, is
\* answered in the step that receives it with status 200 and processed =
\* false: no chat-transport call is issued and the table is as it was. The
\* ordinary messages for which a record is written are messages whose sender
\* is their chat.
C23_MessageGates ==
  /\ [](\A p \in Procs :
          (/\ proc[p].via = "webhook"
           /\ proc[p].upd.wellFormed
           /\ proc[p].branch = "command"
           /\ \/ proc[p].upd.chatType # "private"
              \/ ~proc[p].upd.ownChat
              \/ proc[p].upd.suspicious
              \/ proc[p].upd.command \notin {"/start", "/menu", "/clear"})
          => /\ proc[p].pc = "idle"
             /\ proc[p].calls = 0
             /\ ~proc[p].threw
             /\ proc[p].http = "200"
             /\ proc[p].responses = 1
             /\ ~proc[p].body.processed)
  /\ [][\A p \in Procs :
          (/\ proc'[p] # proc[p]
           /\ proc'[p].via = "webhook"
           /\ proc'[p].branch = "command"
           /\ users' # users)
          => /\ proc[p].upd.ownChat
             /\ proc[p].upd.chatType = "private"
             /\ ~proc[p].upd.suspicious
             /\ proc[p].upd.command \in {"/start", "/menu"}]_vars

\* C23 witness: /start arrived from a private chat that is not the
\* sender's while user 1 had a record and user 2 had none: the request was
\* refused with no call and user 2 still has no record.
C23_Witness ==
  /\ \E r \in users : r.tg_id = "1"
  /\ ~\E r \in users : r.tg_id = "2"
  /\ \E p \in Procs :
       /\ proc[p].via = "webhook"
       /\ proc[p].pc = "idle"
       /\ proc[p].branch = "command"
       /\ proc[p].tgId = "2"
       /\ proc[p].upd.command = "/start"
       /\ proc[p].upd.chatType = "private"
       /\ ~proc[p].upd.ownChat
       /\ ~proc[p].upd.suspicious
       /\ proc[p].http = "200"
       /\ ~proc[p].body.processed
       /\ proc[p].calls = 0

\* C24: a payload built for a payer id and a positive month count parses to
\* exactly {action: subscription, months, tgId: the id in decimal}; a gift
\* payload built for a payer, a recipient identity and a month count parses
\* to exactly {action: gift, months, tgId, recipientTgId}; a payload with a
\* wrong action, months that are not a positive integer, an id that is not
\* an identity, or text that is not JSON, parses to null.
C24_PayloadRoundTrip ==
  \A p \in Procs :
    proc[p].pc = "parsed"
    => CASE proc[p].fn = "subscription" ->
              /\ proc[p].out = [ action |-> "subscription",
                                 months |-> proc[p].months,
                                 tgId |-> NumberText(proc[p].tgId) ]
              /\ DigitsValue(proc[p].out.tgId) = proc[p].tgId
         [] proc[p].fn = "gift" ->
              /\ proc[p].out = [ action |-> "gift",
                                 months |-> proc[p].months,
                                 tgId |-> NumberText(proc[p].tgId),
                                 recipientTgId |-> proc[p].recipientTgId ]
              /\ DigitsValue(proc[p].out.tgId) = proc[p].tgId
         [] OTHER -> proc[p].out = NoJson

\* C24 witness: the payload built for payer 2147483647 and 12 months,
\* {"action":"subscription","months":12,"tgId":"2147483647"}, was parsed.
C24_Witness ==
  /\ proc["h1"].pc = "parsed"
  /\ proc["h1"].fn = "subscription"
  /\ proc["h1"].payload =
       <<"{", "\"", "a", "c", "t", "i", "o", "n", "\"", ":",
         "\"", "s", "u", "b", "s", "c", "r", "i", "p", "t", "i", "o", "n", "\"", ",",
         "\"", "m", "o", "n", "t", "h", "s", "\"", ":", "1", "2", ",",
         "\"", "t", "g", "I", "d", "\"", ":",
         "\"", "2", "1", "4", "7", "4", "8", "3", "6", "4", "7", "\"", "}">>
  /\ proc["h1"].out.months = 12
  /\ proc["h1"].out.tgId = <<"2", "1", "4", "7", "4", "8", "3", "6", "4", "7">>

\* C25: a command text that carries an identifier-smuggling payload (a key
\* such as id= or user_id: followed by digits, tg://user?id=, or a run of 8
\* or more digits) is reported as suspicious with the reason "Potential ID
\* injection payload detected."; so is "/start id=999999999".
C25_InjectionReported ==
  \A p \in Procs :
    (/\ proc[p].pc = "parsed"
     /\ proc[p].text # NoText
     /\ trim(proc[p].text) # <<>>
     /\ trim(proc[p].text)[1] = "/"
     /\ suspiciousCommandPattern(trim(proc[p].text)))
    => /\ proc[p].out.isSuspicious
       /\ proc[p].out.reason = "Potential ID injection payload detected."

IsNumberText(text) ==
  Len(text) > 0 /\ \A i \in 1..Len(text) : IsDigit(text[i])

\* Callback data that consists of exactly the expected tokens: a known
\* domain, an allow-listed subaction, and parameters of the expected
\* pattern with nothing before or after them.
WellFormedData(data) ==
  LET Counted(prefix, least) ==
        /\ startsWith(data, prefix)
        /\ IsNumberText(slice(data, prefix))
        /\ DigitsValue(slice(data, prefix)) >= least
      Listed(prefix, allowed) ==
        startsWith(data, prefix) /\ slice(data, prefix) \in allowed
      parts == split(data)
  IN  /\ data # NoText
      /\ \/ Listed(Prefix.menu, telegramMenuKeySchema)
         \/ data = Text.buyopen
         \/ Listed(Prefix.buymethod, purchaseMethodSchema)
         \/ Counted(Prefix.buyplan, 1)
         \/ Listed(Prefix.faq, faqActionSchema)
         \/ Listed(Prefix.referals, {Text.prolong})
         \/ Counted(Prefix.balanceplan, 1)
         \/ data \in {Text.giftmy, Text.giftgive, Text.giftpromo}
         \/ Counted(Prefix.giftview, 0)
         \/ Counted(Prefix.giftactivate, 0)
         \/ /\ startsWith(data, Prefix.giftmethod)
            /\ Len(parts) = 4
            /\ parts[3] \in purchaseMethodSchema
            /\ tgIdSchema(parts[4])
         \/ /\ startsWith(data, Prefix.giftplan)
            /\ Len(parts) = 4
            /\ IsNumberText(parts[3])
            /\ DigitsValue(parts[3]) >= 1
            /\ tgIdSchema(parts[4])
         \/ /\ startsWith(data, Prefix.country)
            /\ Len(trim(decodeBase64Url(slice(data, Prefix.country))))
                 \in 1..64
         \/ /\ startsWith(data, Prefix.vps)
            /\ IsUuid(slice(data, Prefix.vps))
         \/ Listed(Prefix.howto, howToPlatformSchema)

\* C27: a callback decoder returns a typed action only for data that
\* consists of exactly the expected colon-delimited tokens, with an
\* allow-listed subaction and parameters of the expected pattern; for all
\* other data (unknown domain, further tokens, characters after a number, a
\* bad id or uuid) every decoder returns null.
C27_DecodersStrict ==
  \A p \in Procs :
    (proc[p].pc = "decoded"
       /\ (~AllDecodersNull(proc[p].decoded)
             \/ proc[p].giftsAction # NoAction))
      => WellFormedData(proc[p].data)

\* The data the decoders accept although it is not well formed carries a
\* number followed by other characters, a sign or leading blanks.
LenientOnlyOnNumbers ==
  \A p \in Procs :
    (proc[p].pc = "decoded"
       /\ (~AllDecodersNull(proc[p].decoded)
             \/ proc[p].giftsAction # NoAction)
       /\ ~WellFormedData(proc[p].data))
      => \E prefix \in {Prefix.buyplan, Prefix.balanceplan, Prefix.giftview,
                        Prefix.giftactivate, Prefix.giftplan} :
           /\ startsWith(proc[p].data, prefix)
           /\ ~parseInt(slice(proc[p].data, prefix)).nan

\* Well-formed data is decoded by some decoder.
WellFormedDecoded ==
  \A p \in Procs :
    (proc[p].pc = "decoded" /\ WellFormedData(proc[p].data))
      => (~AllDecodersNull(proc[p].decoded)
            \/ proc[p].giftsAction # NoAction)

\* The secret is configured and one of the two headers carries it.
CarriesSecret(q) ==
  /\ q.expectedSecret # NoText
  /\ Len(q.expectedSecret) > 0
  /\ (q.header1 = q.expectedSecret \/ q.header2 = q.expectedSecret)

\* C28: the secret guard lets a request through to the handler if and only
\* if the secret is configured and header x-telegram-secret or header
\* x-telegram-bot-api-secret-token carries it; otherwise it answers 500
\* (secret not configured) or 401 and the handler is not invoked.
C28_GuardIffEitherHeader ==
  \A p \in Procs :
    /\ proc[p].pc = "handler" => CarriesSecret(proc[p])
    /\ proc[p].pc = "answered" =>
         /\ ~CarriesSecret(proc[p])
         /\ proc[p].status = "500" <=>
              (proc[p].expectedSecret = NoText \/ proc[p].expectedSecret = <<>>)

\* The guard never lets through a request that carries the secret in
\* neither header, and answers 500 exactly when no secret is configured.
GuardFailsClosed ==
  \A p \in Procs :
    /\ proc[p].pc = "handler" => CarriesSecret(proc[p])
    /\ proc[p].pc = "answered" =>
         /\ proc[p].status \in {"500", "401"}
         /\ proc[p].status = "500" <=>
              (proc[p].expectedSecret = NoText \/ proc[p].expectedSecret = <<>>)

\* The only requests refused although a header carries the secret have
\* another value in header x-telegram-secret.
RefusedOnlyByFirstHeader ==
  \A p \in Procs :
    (proc[p].pc = "answered" /\ CarriesSecret(proc[p]))
      => /\ proc[p].status = "401"
         /\ proc[p].header1 \notin {NoText, proc[p].expectedSecret}
         /\ proc[p].header2 = proc[p].expectedSecret

\* Data that decodes to a gift action is data that none of the decoders
\* called by handleTelegramMenuWebhook knows.
GiftActionsUnknownToHandler ==
  \A p \in Procs :
    (proc[p].pc = "decoded" /\ proc[p].giftsAction # NoAction)
      => AllDecodersNull(proc[p].decoded)

\* C29: a callback whose data decodes to a gift action is dispatched to the
\* gift-management branch: gift:activate:<index>, pressed by the owner of
\* the gift list in their own chat, is not reported as an unhandled
\* callback.
C29_GiftActivateHandled ==
  \A p \in Procs :
    (/\ proc[p].pc = "idle"
     /\ proc[p].via = "webhook"
     /\ proc[p].branch = "callback"
     /\ proc[p].upd.action = "gift_activate"
     /\ ~OwnershipMismatch(proc[p].upd)
     /\ proc[p].http = "200")
      => proc[p].body.callbackHandled = "true"

\* The sender of the request handler p works on has, in the table as it is
\* now, a record that passes the active-access check.
SenderHasAccess(p) ==
  \E r \in users :
    /\ r.tg_id = proc[p].tgId
    /\ hasAccessToServers(r.subscription_status, r.subscription_active)

\* C30: the country list, the server list and the connection configs are
\* sent in response to a callback only when the sender of the callback has,
\* at that moment, a record that passes the active-access check; a sender
\* with no record or without access is sent the subscription-required
\* message alone and no catalog data.
C30_CatalogOnlyWithAccess ==
  /\ [][\A p \in Procs :
          (proc'[p].catalog # "none" /\ proc'[p] # proc[p])
          => /\ proc[p].pc = "cb_list"
             /\ proc[p].branch = "callback"
             /\ proc'[p].catalog = proc[p].upd.action
             /\ SenderHasAccess(p)]_vars
  /\ [](\A p \in Procs :
          (/\ proc[p].via = "webhook"
           /\ proc[p].branch = "callback"
           /\ ~SenderHasAccess(p))
          => /\ proc[p].catalog = "none"
             /\ proc[p].pc # "cb_list"
             /\ proc[p].calls <= 2
             /\ (proc[p].calls = 2 =>
                   (proc[p].pc = "idle" /\ Dispatched(proc[p].upd.action))))

\* C30 witness: the connection configs of a server, two of them after the
\* introduction, were sent to user 1, whose record passes the access check,
\* in response to a callback from their own chat.
C30_Witness ==
  \E p \in Procs :
    /\ proc[p].via = "webhook"
    /\ proc[p].pc = "idle"
    /\ proc[p].branch = "callback"
    /\ proc[p].tgId = "1"
    /\ proc[p].upd.action = "vps"
    /\ proc[p].catalog = "vps"
    /\ proc[p].calls = 4
    /\ SenderHasAccess(p)
    /\ proc[p].http = "200"
    /\ proc[p].body.sent = "true"

\* User 1, whose record has no access, pressed the button of a server and
\* was sent the subscription-required message after the answer to the
\* callback, and no catalog data.
RequiredMessageAlone ==
  /\ \E r \in users :
       r.tg_id = "1" /\ ~hasAccessToServers(r.subscription_status,
                                            r.subscription_active)
  /\ \E p \in Procs :
       /\ proc[p].via = "webhook"
       /\ proc[p].pc = "idle"
       /\ proc[p].branch = "callback"
       /\ proc[p].tgId = "1"
       /\ proc[p].upd.action = "vps"
       /\ proc[p].calls = 2
       /\ proc[p].catalog = "none"
       /\ proc[p].http = "200"
       /\ proc[p].body.callbackHandled = "true"
       /\ proc[p].body.sent = "true"

\* The day a record's subscription runs to; 0 when it has none.
UntilDay(user) ==
  IF user.subscription_untill = NoDate THEN 0
  ELSE parseDateOnly(user.subscription_untill)

\* The write of an extension by handler p: the update of
\* activateTelegramSubscription or the matching conditional update of
\* activateTelegramSubscriptionFromBalance.
ExtensionWritten(p) ==
  /\ proc[p].pc \in {"sub_update", "bal_update"}
  /\ proc'[p] # proc[p]
  /\ users' # users \/ proc[p].pc = "sub_update"

\* C31: under any interleaving of activations for one identity (payment,
\* gift activation, balance prolongation) no successful extension is lost:
\* every extension written extends the expiry the record holds when it is
\* written, as extensions applied one after another do, and the stored
\* expiry of a record never decreases.
C31_NoExtensionLost ==
  /\ [][\A p \in Procs :
          ExtensionWritten(p)
          => LET before == getTelegramUserByTgId(users, proc[p].tgId)
                 after == getTelegramUserByTgId(users', proc[p].tgId)
             IN  before # NoUser
                   => after.subscription_untill
                        = NewUntil(before, today, proc[p].months)]_vars
  /\ [][\A r \in users : \A s \in users' :
          r.tg_id = s.tg_id => UntilDay(s) >= UntilDay(r)]_vars

\* Only the stored expiry never decreases.
ExpiryNeverDecreases ==
  [][\A r \in users : \A s \in users' :
       r.tg_id = s.tg_id => UntilDay(s) >= UntilDay(r)]_vars

\* Extensions made one request after another are never lost.
ExtensionsInSequenceKept ==
  [][\A p \in Procs :
       ExtensionWritten(p)
       => LET before == getTelegramUserByTgId(users, proc[p].tgId)
              after == getTelegramUserByTgId(users', proc[p].tgId)
          IN  before # NoUser
                => /\ after.subscription_untill
                        = NewUntil(before, today, proc[p].months)
                   /\ UntilDay(after) >= UntilDay(before)]_vars

\* Handler p applies a reward for referrer R while the other handler works
\* on, or has finished, a prolongation from R's own balance.
RewardBesideOwnDebit(p) ==
  \E q \in Procs \ {p} :
    /\ proc[q].kind = "balance"
    /\ proc[q].tgId = proc[p].referrerTgId

\* C32: under any interleaving of a reward credited to referrer R with R's
\* own prolongation from the balance, R's balance ends at its initial value
\* plus the rewards applied minus the debits that succeeded: the reward
\* write raises the stored balance by exactly its reward, and so never
\* restores money R has spent, and the debit lowers it by exactly its
\* amount.
C32_RewardKeepsDebit ==
  [][\A p \in Procs :
       /\ (proc[p].pc = "rw_update" /\ proc'[p] # proc[p]
             /\ RewardBesideOwnDebit(p))
          => getTelegramUserByTgId(users', proc[p].referrerTgId).earned_money
               = getTelegramUserByTgId(users, proc[p].referrerTgId).earned_money
                   + roundUsd(proc[p].amountUsd * proc[p].rewardPercent)
       /\ (proc[p].pc = "bal_update" /\ proc'[p] # proc[p] /\ users' # users
             /\ \E q \in Procs \ {p} :
                  proc[q].pc \in {"rw_payer", "rw_referrer", "rw_update"}
                    /\ proc[q].kind = "payment")
          => getTelegramUserByTgId(users', proc[p].tgId).earned_money
               = getTelegramUserByTgId(users, proc[p].tgId).earned_money
                   - proc[p].amountUsd]_vars

\* The state the failing interleaving ends in: user 1's payment rewarded
\* user 2 and user 2's prolongation from the balance succeeded, and user 2
\* holds more than the initial balance although the debit succeeded.
SpentMoneyRestored ==
  /\ Quiescent
  /\ \E p, q \in Procs :
       /\ proc[p].kind = "payment" /\ proc[p].tgId = "1" /\ proc[p].applied
       /\ proc[q].kind = "balance" /\ proc[q].tgId = "2" /\ proc[q].ok
  /\ \E r \in users :
       r.tg_id = "2"
         /\ r.earned_money > getTelegramUserByTgId(ChainStore, "2").earned_money

\* The gifts user id holds in a table.
GiftsOf(store, id) ==
  LET user == getTelegramUserByTgId(store, id)
  IN  IF user = NoUser THEN <<>> ELSE user.gifts

\* The calls of the given kind that succeeded for user id, among the last
\* calls of the handlers.
Succeeded(kind, id) ==
  {p \in Procs : proc[p].pc = "idle" /\ proc[p].kind = kind
                   /\ proc[p].tgId = id /\ proc[p].ok}

\* C33: over any interleaving of activateGift calls for one identity, a
\* button pressed twice included, each gift extends the subscription at
\* most once: the successful gift activations of an identity never
\* outnumber the gifts added to it.
C33_GiftActivatedOnce ==
  \A i \in Ids :
    Cardinality(Succeeded("gift_activate", IdString(i)))
      <= Len(GiftsOf(GiftStore, IdString(i)))
           + Cardinality(Succeeded("gift_add", IdString(i)))

\* C34: a gift stored by addGift stays in the recipient's list until it is
\* activated, whatever addGift and activateGift calls for the recipient
\* interleave: addGift's write appends its gift to the list as stored at
\* that moment, and activateGift's write removes the one gift at its index
\* from the list as stored at that moment.
C34_GiftsKept ==
  [][\A p \in Procs :
       /\ (proc[p].pc = "gift_append" /\ proc'[p] # proc[p])
          => /\ Len(GiftsOf(users', proc[p].tgId))
                  = Len(GiftsOf(users, proc[p].tgId)) + 1
             /\ SubSeq(GiftsOf(users', proc[p].tgId), 1,
                       Len(GiftsOf(users, proc[p].tgId)))
                  = GiftsOf(users, proc[p].tgId)
       /\ (proc[p].pc = "gift_remove" /\ proc'[p] # proc[p])
          => /\ proc[p].giftIndex < Len(GiftsOf(users, proc[p].tgId))
             /\ GiftsOf(users', proc[p].tgId)
                  = RemoveAt(GiftsOf(users, proc[p].tgId), proc[p].giftIndex)]_vars

\* The state a failing interleaving ends in: both handlers added a gift to
\* user 2 successfully and none of user 2's gifts was activated, yet user 2
\* holds one gift more than before, not two.
AddedGiftLost ==
  /\ Quiescent
  /\ \A p \in Procs :
       proc[p].kind = "gift_add" /\ proc[p].tgId = "2" /\ proc[p].ok
  /\ Len(GiftsOf(users, "2")) = Len(GiftsOf(GiftStore, "2")) + 1

\* C35: activateGift is all-or-nothing: when it returns an error, a store
\* failure while the shortened gift list is persisted included, neither the
\* subscription nor the gift list of the identity has changed; the expiry
\* the call computed is not stored, so no gift is both still in the list
\* and already applied.
C35_ActivateGiftAllOrNothing ==
  [][\A p \in Procs :
       (/\ proc[p].kind = "gift_activate"
        /\ proc[p].pc # "idle"
        /\ proc'[p].pc = "idle"
        /\ ~proc'[p].ok)
       => /\ users' = users
          /\ \/ proc[p].newUntil = NoDate
             \/ getTelegramUserByTgId(users, proc[p].tgId).subscription_untill
                  # proc[p].newUntil]_vars

\* An error returned before the subscription update leaves the call's
\* expiry unwritten.
EarlyGiftErrorsChangeNothing ==
  [][\A p \in Procs :
       (/\ proc[p].kind = "gift_activate"
        /\ proc[p].pc \in GiftCallPcs \ {"gift_remove"}
        /\ proc'[p].pc = "idle"
        /\ ~proc'[p].ok)
       => /\ users' = users
          /\ \/ proc[p].newUntil = NoDate
             \/ getTelegramUserByTgId(users, proc[p].tgId).subscription_untill
                  # proc[p].newUntil]_vars

\* C36: in every reachable state the stored referral count of every
\* identity equals the length of its referral list, and the list holds at
\* most one entry for each referred identity.
C36_ReferralListConsistent ==
  \A r \in users :
    /\ r.number_of_referals = Len(r.refferals_data)
    /\ \A i, j \in 1..Len(r.refferals_data) :
         r.refferals_data[i].tgId = r.refferals_data[j].tgId => i = j

\* C36 witness: both handlers applied a reward for payments of user 1, who
\* had bought once before, to user 2: user 2's list still holds one entry,
\* that of user 1, with a raised purchase counter.
C36_Witness ==
  /\ Quiescent
  /\ \A p \in Procs :
       proc[p].kind = "payment" /\ proc[p].tgId = "1" /\ proc[p].applied
  /\ \E r \in users :
       /\ r.tg_id = "2"
       /\ r.number_of_referals = 1
       /\ Len(r.refferals_data) = 1
       /\ r.refferals_data[1].tgId = "1"
       /\ r.refferals_data[1].numberOfPurchase >= 2

\* The record passes the server-access check.
PassesAccess(r) == hasAccessToServers(r.subscription_status, r.subscription_active)

C38_CallbackTouchesOnlySender ==
  [][\A p \in Procs :
       (proc[p].kind = "balance" /\ proc[p].pc # "idle" /\ proc'[p] # proc[p])
       => \A r \in users :
            r.tg_id # proc[p].tgId
            => \E s \in users' :
                 /\ s.tg_id = r.tg_id
                 /\ s.subscription_active = r.subscription_active
                 /\ s.subscription_status = r.subscription_status
                 /\ s.subscription_untill = r.subscription_untill
                 /\ s.gifts = r.gifts
                 /\ s.earned_money >= r.earned_money]_vars

\* Only the subscription fields and the gift list of the other records.
CallbackKeepsOthersSubscription ==
  [][\A p \in Procs :
       (proc[p].kind = "balance" /\ proc[p].pc # "idle" /\ proc'[p] # proc[p])
       => \A r \in users :
            r.tg_id # proc[p].tgId
            => \E s \in users' :
                 /\ s.tg_id = r.tg_id
                 /\ s.subscription_active = r.subscription_active
                 /\ s.subscription_status = r.subscription_status
                 /\ s.subscription_untill = r.subscription_untill
                 /\ s.gifts = r.gifts]_vars


\* A payment message whose invoice payload is of the gift variant.
IsGiftPayment(r) == r.upd.pay /\ r.upd.payload # NoPayload /\ r.upd.payload.action = "gift"

\* C39: a validated successful payment whose invoice payload has action=gift
\* adds a gift to the recipient named in the payload and does not extend the
\* payer's own subscription: no step of the handler of such a payment writes
\* the payer's subscription_untill, and when the payment is answered
\* paymentApplied: true the recipient holds a gift.
C39_GiftPaymentAddsGift ==
  [][\A p \in Procs :
       (proc[p].pc # "idle" /\ IsGiftPayment(proc[p]) /\ proc'[p] # proc[p])
       => /\ \A r \in users :
               r.tg_id = IdString(proc[p].upd.from)
               => \E s \in users' : s.tg_id = r.tg_id
                                    /\ s.subscription_untill = r.subscription_untill
          /\ (proc'[p].body # NoBody /\ proc'[p].body.paymentApplied = "true")
             => \E s \in users' : s.tg_id = proc[p].upd.payload.recipientTgId
                                  /\ Len(s.gifts) > 0]_vars

\* What the handler does with a gift payment: in the step that answers it
\* paymentApplied: true the payer's subscription is live, extended by the
\* paid months, and no record holds a gift.
GiftPaymentExtendsPayer ==
  [][\A p \in Procs :
       (proc[p].pc # "idle" /\ IsGiftPayment(proc[p])
          /\ proc'[p].body # NoBody /\ proc'[p].body.paymentApplied = "true")
       => /\ \A s \in users' : Len(s.gifts) = 0
          /\ \E s \in users' : s.tg_id = IdString(proc[p].upd.from)
                                /\ s.subscription_status = "live"]_vars


\* The ids the sweep is to attempt, highest first: the window
\* [max(1, upTo - limit + 1), upTo] for the limit clamped to 1..10000, and
\* every id tracked for the chat when the sweep began.
SweepTargets(r) ==
  LET given == IF r.maxMessagesToSweep = NoLimit THEN DefaultSweepLimit
               ELSE r.maxMessagesToSweep.value
      limit == IF given < 1 THEN 1 ELSE IF given > MaxSweepLimit THEN MaxSweepLimit
               ELSE given
      low == IF r.upToMessageId - limit + 1 < 1 THEN 1
             ELSE r.upToMessageId - limit + 1
  IN  SortDescending((low..r.upToMessageId)
                       \cup {r.wasTracked[i] : i \in 1..Len(r.wasTracked)})

\* C40: the /clear sweep is bounded and complete: a sweep that has stopped
\* used a limit within 1..10000, attempted every id of the window and every
\* tracked id exactly once in descending order, whatever the single deletes
\* gave, and reported attemptedCount = deletedCount + failedCount.
C40_SweepAttemptsAll ==
  \A p \in Procs :
    proc[p].pc \in {"returned", "thrown"}
    => /\ proc[p].sweepLimit \in 1..MaxSweepLimit
       /\ proc[p].attempted = SweepTargets(proc[p])
       /\ proc[p].pc = "returned"
       /\ proc[p].attemptedCount = proc[p].deletedCount + proc[p].failedCount

\* The same for the sweeps that return a result: deletes answered with ok
\* false do not stop the loop.
ReturnedSweepAttemptedAll ==
  \A p \in Procs :
    proc[p].pc = "returned"
    => /\ proc[p].sweepLimit \in 1..MaxSweepLimit
       /\ proc[p].attempted = SweepTargets(proc[p])
       /\ proc[p].attemptedCount = proc[p].deletedCount + proc[p].failedCount
       /\ proc[p].attemptedCount = Len(proc[p].attempted)
       /\ proc[p].ok <=> proc[p].failedCount = 0

\* At every moment the ids attempted so far are the first of the targets, in
\* their order, and never more than the window and the tracked ids.
SweepInOrder ==
  \A p \in Procs :
    proc[p].pc \in {"delete", "returned", "thrown"}
    => /\ Len(proc[p].attempted) <= Len(SweepTargets(proc[p]))
       /\ proc[p].attempted
            = SubSeq(SweepTargets(proc[p]), 1, Len(proc[p].attempted))
       /\ Len(SweepTargets(proc[p])) <= MaxSweepLimit + Len(proc[p].wasTracked)

\* Every sweep stops, with a result or with an exception.
SweepTerminates ==
  (\E p \in Procs : proc[p].pc = "sweep")
    ~> (\E p \in Procs : proc[p].pc \in {"returned", "thrown"})

\* A sweep returned a result after a delete was answered with ok false.
SweepWentOnAfterFailure ==
  \E p \in Procs : proc[p].pc = "returned" /\ proc[p].failedCount > 0
                   /\ proc[p].deletedCount > 0

====
